---- MODULE Spec2Model ----
(***************************************************************************)
(* A model of the locking and coalescing core of slippy-tile-proxy-server: *)
(*   - nslock.py            NamespaceLock and its registry       (SpecNS)  *)
(*   - filelock.py          FileLock                             (SpecFL)  *)
(*   - geonorge_provider.py GeonorgeWMSDownloadProvider          (SpecWMS) *)
(* Each specification moves its own variables and leaves the others at     *)
(* their initial value.                                                    *)
(***************************************************************************)
EXTENDS Integers, Sequences, FiniteSets, TLC

\* ------------------------------------------------------------------ bounds

\* Threads that use NamespaceLock directly (SpecNS).
NumNsThreads == 2

\* FileLock objects on the one lock path (SpecFL).
NumFileLocks == 2
\* The clock of SpecFL runs from 0 to MaxTime seconds.
MaxTime == 1
\* The count of the times acquire returned True on an object stops here.
MaxTrues == 2

\* Concurrent tile requests served by the Geonorge WMS provider (SpecWMS).
NumRequests == 2

NsThreads == 1..NumNsThreads
\* The namespace strings the threads of SpecNS lock.
NsKeys == {"k1", "k2"}
FlObjs == 1..NumFileLocks
\* The processes the FileLock objects live in: fcntl.lockf tells only a lock
\* of the calling process from a lock of another one.
FlProcs == {"p1", "p2"}
NoProc == "none"
WmsReqs == 1..NumRequests

VARIABLES
    \* nslock.py module state
    namespaceLock,   \* _namespaceLock: 0 when free, else the thread holding it
    namespace,       \* _namespace: a dict, key -> Lock object
    lockCounter,     \* _lockCounter: insertion-ordered dict, a sequence of
                     \* [ns, refcount]
    locked,          \* the Lock objects: object id -> is it locked
    \* one thread of SpecNS
    nsPc, nsKey, nsLockRef, nsExc, nsResult,
    \* the thread calling getListOfActiveLocks, and the dict it builds
    listPc, listSnap,
    \* filelock.py: the file system at the lock path, and the clock
    flPath,          \* inode the path names (NoFile: the path does not exist)
    flLock,          \* inode -> process holding the advisory lock, or NoProc
    flLeaked,        \* inodes kept open by descriptors no object refers to
    \* one FileLock object
    flProc, flPc, flFd, flBlocking, flTimeout, flElapsed, flRet, flHeld,
    flTrues,         \* how often acquire returned True since the object last
                     \* set out to open the lock file (a count kept for the
                     \* claims; the code has none)
    \* geonorge_provider.py: the cache directory, path -> "writing" or "ok"
    wmsFiles,
    \* one request in GeonorgeWMSDownloadProvider.downloadTile
    wmsPc,           \* where the request is
    wmsReq,          \* its arguments: mapId, z, x, y
    wmsLayerIdx,     \* the layer _getLayerFromGeonorge is working on
    wmsCropIdx,      \* the tile _cropLargeCompositeAndCacheIt is working on
    wmsResult,       \* what downloadTile returned, and by which way
    wmsGets,         \* the WMS GETs the request has issued
    \* one call of a function of the providers: the function with its
    \* arguments, whether it has run, and what it returned
    fnCall, fnDone, fnRet,
    \* the layer cache of the MultithreadedDownloadProvider: the clock, the
    \* files, the NamespaceLock of each path, and per thread its position,
    \* its call and its result
    cacheClock, cacheStore, cacheLock, cachePc, cacheArg, cacheRet,
    \* history: the last completed save of each path, and the image a read
    \* that began after it is due
    cacheLastPut, cacheExpect,
    \* one call of _downloadSingleTileLayer: its position, its url, its
    \* counter, the body of the last response, the GETs issued, the seconds
    \* slept and its result
    dlPc, dlUrl, numRetries, dlData, dlGets, dlSlept, dlRet,
    \* history: a body that is no image and no overuse message was received
    dlInvalidSeen,
    \* getListOfActiveLocks seen from its caller: _lockCounter, and the
    \* object the last call returned
    listReg, listHeld

regVars == <<namespaceLock, namespace, lockCounter, locked>>
nsThreadVars == <<nsPc, nsKey, nsLockRef, nsExc, nsResult>>
listVars == <<listPc, listSnap>>
nsVars == <<regVars, nsThreadVars, listVars>>
flFsVars == <<flPath, flLock, flLeaked>>
flObjVars == <<flProc, flPc, flFd, flBlocking, flTimeout, flElapsed, flRet, flHeld,
               flTrues>>
flVars == <<flFsVars, flObjVars>>
\* What an action of nslock.py, and one of filelock.py, leaves alone.
wmsReqVars == <<wmsPc, wmsReq, wmsLayerIdx, wmsCropIdx, wmsResult, wmsGets>>
wmsVars == <<wmsFiles, wmsReqVars>>
fnVars == <<fnCall, fnDone, fnRet>>
\* The variables outside nslock.py, filelock.py and the WMS requests.
cacheVars == <<cacheClock, cacheStore, cacheLock, cachePc, cacheArg, cacheRet,
               cacheLastPut, cacheExpect>>
dlVars == <<dlPc, dlUrl, numRetries, dlData, dlGets, dlSlept, dlRet, dlInvalidSeen>>
snapVars == <<listReg, listHeld>>
auxVars == <<fnVars, cacheVars, dlVars, snapVars>>
nsFrame == <<flVars, wmsVars, auxVars>>
flFrame == <<nsVars, wmsVars, auxVars>>
\* What a request of the WMS provider leaves alone.
wmsFrame == <<nsThreadVars, listVars, flVars, auxVars>>
\* What a function call leaves alone.
fnFrame == <<nsVars, flVars, wmsVars, cacheVars, dlVars, snapVars>>
\* What a thread using the layer cache leaves alone.
cacheFrame == <<nsVars, flVars, wmsVars, fnVars, dlVars, snapVars>>
\* What a call of _downloadSingleTileLayer leaves alone.
dlFrame == <<nsVars, flVars, wmsVars, fnVars, cacheVars, snapVars>>
\* What a caller of getListOfActiveLocks leaves alone.
snapFrame == <<nsVars, flVars, wmsVars, fnVars, cacheVars, dlVars>>

\* ------------------------------------------------- nslock.py: the registry

NoLock == 0

\* Lock objects are garbage collected: an id is reused once nothing refers to
\* it, so this many ids are enough for every reachable state.
LockIds == 1..(Cardinality(NsKeys) + NumNsThreads + 2 * NumRequests + 1)

\* An insertion-ordered Python dict {ns: refcount} as a sequence of items.
DictKeys(d) == {d[i].ns : i \in DOMAIN d}

DictGet(d, k) == d[CHOOSE i \in DOMAIN d : d[i].ns = k].refcount

\* d[k] = v: a new key goes to the end, an existing key keeps its place.
DictSet(d, k, v) ==
    IF k \in DictKeys(d)
    THEN [i \in DOMAIN d |-> IF d[i].ns = k THEN [ns |-> k, refcount |-> v] ELSE d[i]]
    ELSE Append(d, [ns |-> k, refcount |-> v])

\* del d[k]
DictDel(d, k) == SelectSeq(d, LAMBDA e : e.ns # k)

\* _namespace[k] = v, and _namespace.pop(k).
NamespaceSet(d, k, v) == [x \in DOMAIN d \cup {k} |-> IF x = k THEN v ELSE d[x]]

NamespacePop(d, k) == [x \in DOMAIN d \ {k} |-> d[x]]

\* The ids some live reference holds: the registry's and the threads' locals.
ReferencedLocks ==
    {namespace[k] : k \in DOMAIN namespace} \cup {nsLockRef[t] : t \in NsThreads}

\* Lock(): a new, unlocked object.
NewLock == CHOOSE l \in LockIds : l \notin ReferencedLocks

\* `if self._namespace not in _namespace.keys()` (mutant: the test is dropped
\* and every constructor installs a new Lock).
InitCreatesAlways(k) == TRUE

InitCreates(k) == k \notin DOMAIN namespace

\* `_lockCounter[self._namespace] += 1` (mutant: the count is not incremented).
InitIncrementLost(d, k) == d

InitIncrement(d, k) == DictSet(d, k, DictGet(d, k) + 1)

\* `if _lockCounter[self._namespace] == 0` (mutant: the entry is never dropped).
ExitNeverDrops(d, k) == FALSE

ExitDropsEntry(d, k) == DictGet(d, k) = 0

\* What __exit__ returns: False re-raises the exception of the with block, and
\* the value is ignored when the block ended without one (mutant: always True,
\* which swallows the exception).
ExitReturnsTrueAlways(exc) == TRUE

ExitReturn(exc) == IF exc = "raise" THEN FALSE ELSE TRUE

\* What the caller of `with NamespaceLock(k): ...` sees once __exit__ returned r.
WithOutcome(exc, r) ==
    IF exc = "raise" THEN (IF r THEN "swallowed" ELSE "raised") ELSE exc

\* How the guarded block may end.
BlockEndings == {"normal", "return", "raise"}

\* ----------------------------------------- nslock.py: one thread (SpecNS)

\* The `with _namespaceLock:` of __init__ ends after line 38, before __enter__
\* is called: the registry mutex is free again (mutant: the constructor keeps
\* it).
MutexKeptAfterInit(t) == t

MutexAfterInit(t) == 0

\* __init__, line 33: `with _namespaceLock:` is entered.
NsInitLock(t) ==
    /\ UNCHANGED nsFrame
    /\ nsPc[t] = "idle"
    /\ namespaceLock = 0
    /\ \E k \in NsKeys : nsKey' = [nsKey EXCEPT ![t] = k]
    /\ namespaceLock' = t
    /\ nsPc' = [nsPc EXCEPT ![t] = "init_check"]
    /\ UNCHANGED <<namespace, lockCounter, locked, nsLockRef, nsExc, nsResult, listVars>>

\* __init__, lines 34-38: a new Lock is installed, or the count incremented
\* and the registry mutex released.
NsInitCheck(t) ==
    /\ UNCHANGED nsFrame
    /\ nsPc[t] = "init_check"
    /\ IF InitCreates(nsKey[t])
       THEN /\ namespace' = NamespaceSet(namespace, nsKey[t], NewLock)
            /\ locked' = [locked EXCEPT ![NewLock] = FALSE]
            /\ nsPc' = [nsPc EXCEPT ![t] = "init_count"]
            /\ UNCHANGED <<lockCounter, namespaceLock>>
       ELSE /\ lockCounter' = InitIncrement(lockCounter, nsKey[t])
            /\ namespaceLock' = MutexAfterInit(t)
            /\ nsPc' = [nsPc EXCEPT ![t] = "enter_lookup"]
            /\ UNCHANGED <<namespace, locked>>
    /\ UNCHANGED <<nsKey, nsLockRef, nsExc, nsResult, listVars>>

\* __init__, line 36: `_lockCounter[self._namespace] = 1`, then the registry
\* mutex is released.
NsInitCount(t) ==
    /\ UNCHANGED nsFrame
    /\ nsPc[t] = "init_count"
    /\ lockCounter' = DictSet(lockCounter, nsKey[t], 1)
    /\ namespaceLock' = MutexAfterInit(t)
    /\ nsPc' = [nsPc EXCEPT ![t] = "enter_lookup"]
    /\ UNCHANGED <<namespace, locked, nsKey, nsLockRef, nsExc, nsResult, listVars>>

\* __enter__, line 41: `_namespace[self._namespace]` is read without the
\* registry mutex (a missing entry is a KeyError).
NsEnterLookup(t) ==
    /\ UNCHANGED nsFrame
    /\ nsPc[t] = "enter_lookup"
    /\ IF nsKey[t] \notin DOMAIN namespace
       THEN /\ nsPc' = [nsPc EXCEPT ![t] = "keyerror"]
            /\ UNCHANGED nsLockRef
       ELSE /\ nsLockRef' = [nsLockRef EXCEPT ![t] = namespace[nsKey[t]]]
            /\ nsPc' = [nsPc EXCEPT ![t] = "enter_acquire"]
    /\ UNCHANGED <<regVars, nsKey, nsExc, nsResult, listVars>>

\* __enter__, line 41: `.acquire()` blocks until the Lock is free.
NsEnterAcquire(t) ==
    /\ UNCHANGED nsFrame
    /\ nsPc[t] = "enter_acquire"
    /\ ~locked[nsLockRef[t]]
    /\ locked' = [locked EXCEPT ![nsLockRef[t]] = TRUE]
    /\ nsPc' = [nsPc EXCEPT ![t] = "body"]
    /\ UNCHANGED <<namespaceLock, namespace, lockCounter, nsKey, nsLockRef, nsExc,
                   nsResult, listVars>>

\* The guarded block ends: normally, by a return, or by raising.
NsBody(t) ==
    /\ UNCHANGED nsFrame
    /\ nsPc[t] = "body"
    /\ \E e \in BlockEndings : nsExc' = [nsExc EXCEPT ![t] = e]
    /\ nsPc' = [nsPc EXCEPT ![t] = "exit_wait"]
    /\ UNCHANGED <<regVars, nsKey, nsLockRef, nsResult, listVars>>

\* __exit__, line 44: `with _namespaceLock:` is entered.
NsExitLock(t) ==
    /\ UNCHANGED nsFrame
    /\ nsPc[t] = "exit_wait"
    /\ namespaceLock = 0
    /\ namespaceLock' = t
    /\ nsPc' = [nsPc EXCEPT ![t] = "exit_dec"]
    /\ UNCHANGED <<namespace, lockCounter, locked, nsKey, nsLockRef, nsExc, nsResult,
                   listVars>>

\* __exit__, lines 45-46: `lock = _namespace[...]`, `_lockCounter[...] -= 1`.
NsExitDec(t) ==
    /\ UNCHANGED nsFrame
    /\ nsPc[t] = "exit_dec"
    /\ nsLockRef' = [nsLockRef EXCEPT ![t] = namespace[nsKey[t]]]
    /\ lockCounter' = DictSet(lockCounter, nsKey[t], DictGet(lockCounter, nsKey[t]) - 1)
    /\ nsPc' = [nsPc EXCEPT ![t] = "exit_test"]
    /\ UNCHANGED <<namespaceLock, namespace, locked, nsKey, nsExc, nsResult, listVars>>

\* __exit__, lines 47-48: at count zero the entry is popped from _namespace.
NsExitTest(t) ==
    /\ UNCHANGED nsFrame
    /\ nsPc[t] = "exit_test"
    /\ IF ExitDropsEntry(lockCounter, nsKey[t])
       THEN /\ namespace' = NamespacePop(namespace, nsKey[t])
            /\ nsPc' = [nsPc EXCEPT ![t] = "exit_del"]
       ELSE /\ nsPc' = [nsPc EXCEPT ![t] = "exit_release"]
            /\ UNCHANGED namespace
    /\ UNCHANGED <<namespaceLock, lockCounter, locked, nsKey, nsLockRef, nsExc,
                   nsResult, listVars>>

\* __exit__, line 49: `del _lockCounter[self._namespace]`.
NsExitDel(t) ==
    /\ UNCHANGED nsFrame
    /\ nsPc[t] = "exit_del"
    /\ lockCounter' = DictDel(lockCounter, nsKey[t])
    /\ nsPc' = [nsPc EXCEPT ![t] = "exit_release"]
    /\ UNCHANGED <<namespaceLock, namespace, locked, nsKey, nsLockRef, nsExc,
                   nsResult, listVars>>

\* __exit__, lines 50-56: `lock.release()`, the registry mutex is released,
\* and the return value decides whether the block's exception propagates.
NsExitRelease(t) ==
    /\ UNCHANGED nsFrame
    /\ nsPc[t] = "exit_release"
    /\ locked' = [locked EXCEPT ![nsLockRef[t]] = FALSE]
    /\ namespaceLock' = 0
    /\ nsResult' = [nsResult EXCEPT ![t] = WithOutcome(nsExc[t], ExitReturn(nsExc[t]))]
    /\ nsPc' = [nsPc EXCEPT ![t] = "exited"]
    /\ UNCHANGED <<namespace, lockCounter, nsKey, nsLockRef, nsExc, listVars>>

\* The NamespaceLock object goes out of scope; the thread's next operation.
NsForget(t) ==
    /\ UNCHANGED nsFrame
    /\ nsPc[t] = "exited"
    /\ nsPc' = [nsPc EXCEPT ![t] = "idle"]
    /\ nsLockRef' = [nsLockRef EXCEPT ![t] = NoLock]
    /\ nsExc' = [nsExc EXCEPT ![t] = "none"]
    /\ nsKey' = [nsKey EXCEPT ![t] = "k1"]
    /\ nsResult' = [nsResult EXCEPT ![t] = "none"]
    /\ UNCHANGED <<regVars, listVars>>

\* ------------------------------------- nslock.py: getListOfActiveLocks

\* True iff a comes before b in sorted(items, key=refcount): Python's sort is
\* stable, so equal refcounts keep their dict (insertion) order (mutant: the
\* sort is by falling refcount, so that reversed() gives a rising one).
SortedBeforeFalling(d, i, j) ==
    \/ d[i].refcount > d[j].refcount
    \/ d[i].refcount = d[j].refcount /\ i < j

SortedBefore(d, i, j) ==
    \/ d[i].refcount < d[j].refcount
    \/ d[i].refcount = d[j].refcount /\ i < j

\* reversed(sorted(_lockCounter.items(), key=lambda item: item[1])): the place
\* of item i in the result.
RankReversed(d, i) == 1 + Cardinality({j \in DOMAIN d : SortedBefore(d, i, j)})

SortedByRefcount(d) ==
    [p \in DOMAIN d |-> d[CHOOSE i \in DOMAIN d : RankReversed(d, i) = p]]

\* The dict getListOfActiveLocks builds under the registry mutex.
ActiveLocks(d, sorted_by_refcount) ==
    IF sorted_by_refcount THEN SortedByRefcount(d) ELSE d

\* The registry mutex's holder while getListOfActiveLocks runs (the thread of
\* a /locks request, or of a request at the admission gate).
Lister == -1

\* line 13: `with _namespaceLock:` is entered.
NsListLock ==
    /\ UNCHANGED nsFrame
    /\ listPc = "idle"
    /\ namespaceLock = 0
    /\ namespaceLock' = Lister
    /\ listPc' = "list_copy"
    /\ UNCHANGED <<namespace, lockCounter, locked, nsThreadVars, listSnap>>

\* lines 14-19: the copy, plain or sorted.
NsListCopy ==
    /\ UNCHANGED nsFrame
    /\ listPc = "list_copy"
    /\ \E s \in BOOLEAN : listSnap' = ActiveLocks(lockCounter, s)
    /\ listPc' = "list_release"
    /\ UNCHANGED <<regVars, nsThreadVars>>

\* the `with` of line 13 ends and the copy is returned.
NsListReturn ==
    /\ UNCHANGED nsFrame
    /\ listPc = "list_release"
    /\ namespaceLock' = 0
    /\ listPc' = "idle"
    /\ listSnap' = <<>>
    /\ UNCHANGED <<namespace, lockCounter, locked, nsThreadVars>>

\* ------------------------------------------------------------ filelock.py

NoFile == 0
NoFd == 0

\* The timeouts acquire is called with: -1 (none), or MaxTime seconds.
FlTimeouts == {-1, MaxTime}

\* Inode numbers are reused once no path and no descriptor refers to them.
FlInodes == 1..(2 * NumFileLocks + 1)

FlUsedInodes == {flPath} \cup {flFd[o] : o \in FlObjs} \cup flLeaked

FlFreeInodes == FlInodes \ FlUsedInodes

FlNewInode == CHOOSE i \in FlInodes : i \in FlFreeInodes

\* os.open(..., O_CREAT | O_RDWR | O_EXCL) raises FileExistsError iff the path
\* exists (mutant: O_EXCL is left out and an existing file is opened).
OpenWithoutExcl(path) == FALSE

OpenExclFails(path) == path # NoFile

\* `blocking and (timeout == -1 or timeout <= time.time() - tStart)`: the test
\* of lines 56-57, 66-67 and 84-86 that decides on `continue`. flElapsed is
\* time.time() - tStart.
RetryAllowed(o) ==
    flBlocking[o] /\ (flTimeout[o] = -1 \/ flTimeout[o] <= flElapsed[o])

\* `ex.errno != errno.EAGAIN or ex.errno != errno.EACCES` (line 65).
LockfErrorHandled(errno) == errno # "EAGAIN" \/ errno # "EACCES"

\* What fcntl.lockf(fd, LOCK_EX | LOCK_NB) does for a process: the lock is
\* per process and inode, and a lock of another process is EAGAIN or EACCES.
LockfOutcomes(p, ino) ==
    IF flLock[ino] \notin {NoProc, p} THEN {"EAGAIN", "EACCES"} ELSE {"ok"}

\* The advisory locks after process p closed a descriptor of inode ino, or
\* unlocked it: POSIX drops every lock p has on the file.
LocksDropped(p, ino) ==
    IF flLock[ino] = p THEN [flLock EXCEPT ![ino] = NoProc] ELSE flLock

\* The object after its call returned: the call's locals are gone.
FlReturn(o, r) ==
    /\ flPc' = [flPc EXCEPT ![o] = "idle"]
    /\ flRet' = [flRet EXCEPT ![o] = r]
    /\ flBlocking' = [flBlocking EXCEPT ![o] = FALSE]
    /\ flTimeout' = [flTimeout EXCEPT ![o] = -1]
    /\ flElapsed' = [flElapsed EXCEPT ![o] = 0]

\* _closeFile (lines 22-25) followed by `return False`. Descriptors are never
\* 0 here (0, 1 and 2 are the standard streams), so `if self._fd` is
\* `self._fd is not None`.
FlCloseAndFail(o) ==
    /\ flFd' = [flFd EXCEPT ![o] = NoFd]
    /\ flLock' = IF flFd[o] = NoFd THEN flLock ELSE LocksDropped(flProc[o], flFd[o])
    /\ FlReturn(o, "false")
    /\ UNCHANGED <<flPath, flLeaked, flProc, flHeld, flTrues>>

\* __init__, lines 16-20: a FileLock object is made in some process; it has
\* no descriptor.
FlConstruct(o) ==
    /\ UNCHANGED flFrame
    /\ flPc[o] = "new"
    /\ \E p \in FlProcs : flProc' = [flProc EXCEPT ![o] = p]
    /\ flPc' = [flPc EXCEPT ![o] = "idle"]
    /\ UNCHANGED <<flFsVars, flFd, flBlocking, flTimeout, flElapsed, flRet, flHeld, flTrues>>

\* `if self._fd is not None` of acquire, line 32 (mutant: acquire does not
\* look whether the object has a descriptor).
AlreadyOpenNever(fd) == FALSE

AlreadyOpen(fd) == fd # NoFd

\* acquire, lines 31-35: under self._threadLock; an object that has a
\* descriptor returns True at once.
FlAcquireCall(o) ==
    /\ UNCHANGED flFrame
    /\ flPc[o] = "idle"
    /\ \E b \in BOOLEAN, to \in FlTimeouts :
        IF AlreadyOpen(flFd[o])
        THEN /\ flHeld' = [flHeld EXCEPT ![o] = TRUE]
             /\ flTrues' = [flTrues EXCEPT ![o] = IF @ < MaxTrues THEN @ + 1 ELSE @]
             /\ FlReturn(o, "true")
             /\ UNCHANGED <<flFsVars, flProc, flFd>>
        ELSE /\ flPc' = [flPc EXCEPT ![o] = "open"]
             /\ flBlocking' = [flBlocking EXCEPT ![o] = b]
             /\ flTimeout' = [flTimeout EXCEPT ![o] = to]
             /\ flElapsed' = [flElapsed EXCEPT ![o] = 0]
             /\ flRet' = [flRet EXCEPT ![o] = "none"]
             /\ flTrues' = [flTrues EXCEPT ![o] = 0]
             /\ UNCHANGED <<flFsVars, flProc, flFd, flHeld>>

\* acquire, lines 45-58: os.open. On FileExistsError the loop continues if
\* RetryAllowed; otherwise control falls to line 61 with self._fd unchanged,
\* and fcntl.lockf(None, ...) raises TypeError out of acquire.
FlOpen(o) ==
    /\ UNCHANGED flFrame
    /\ flPc[o] = "open"
    /\ IF ~OpenExclFails(flPath)
       THEN /\ flPath = NoFile => FlFreeInodes # {}
            /\ LET ino == IF flPath = NoFile THEN FlNewInode ELSE flPath
               IN /\ flPath' = ino
                  /\ flFd' = [flFd EXCEPT ![o] = ino]
                  /\ flLock' = IF flPath = NoFile THEN [flLock EXCEPT ![ino] = NoProc] ELSE flLock
            /\ flLeaked' = IF flFd[o] = NoFd THEN flLeaked ELSE flLeaked \cup {flFd[o]}
            /\ flPc' = [flPc EXCEPT ![o] = "lockf"]
            /\ UNCHANGED <<flProc, flBlocking, flTimeout, flElapsed, flRet, flHeld, flTrues>>
       ELSE IF RetryAllowed(o)
            THEN UNCHANGED flVars
            ELSE IF flFd[o] = NoFd
                 THEN /\ FlReturn(o, "TypeError")
                      /\ UNCHANGED <<flFsVars, flProc, flFd, flHeld, flTrues>>
                 ELSE /\ flPc' = [flPc EXCEPT ![o] = "lockf"]
                      /\ UNCHANGED <<flFsVars, flProc, flFd, flBlocking, flTimeout,
                                     flElapsed, flRet, flHeld, flTrues>>

\* acquire, lines 60-71: fcntl.lockf returned r.
FlLockfResult(o, r) ==
    IF r = "ok"
    THEN /\ flLock' = [flLock EXCEPT ![flFd[o]] = flProc[o]]
         /\ flPc' = [flPc EXCEPT ![o] = "stat"]
         /\ UNCHANGED <<flPath, flLeaked, flProc, flFd, flBlocking, flTimeout,
                        flElapsed, flRet, flHeld, flTrues>>
    ELSE IF LockfErrorHandled(r)
         THEN IF RetryAllowed(o)
              THEN /\ flPc' = [flPc EXCEPT ![o] = "open"]
                   /\ UNCHANGED <<flFsVars, flProc, flFd, flBlocking, flTimeout,
                                  flElapsed, flRet, flHeld, flTrues>>
              ELSE FlCloseAndFail(o)
         ELSE /\ FlReturn(o, "OSError")
              /\ UNCHANGED <<flFsVars, flProc, flFd, flHeld, flTrues>>

\* acquire, line 61: the advisory lock, non-blocking.
FlLockf(o) ==
    /\ UNCHANGED flFrame
    /\ flPc[o] = "lockf"
    /\ \E r \in LockfOutcomes(flProc[o], flFd[o]) : FlLockfResult(o, r)

\* acquire, line 61: the kernel is out of lock records and lockf fails with
\* ENOLCK, a true I/O error.
FlLockfFault(o) ==
    /\ UNCHANGED flFrame
    /\ flPc[o] = "lockf"
    /\ FlLockfResult(o, "ENOLCK")

\* acquire, lines 73-89: the inode of the descriptor against a fresh stat of
\* the path.
FlStat(o) ==
    /\ UNCHANGED flFrame
    /\ flPc[o] = "stat"
    /\ IF flPath # NoFile /\ flPath = flFd[o]
       THEN /\ flHeld' = [flHeld EXCEPT ![o] = TRUE]
            /\ flTrues' = [flTrues EXCEPT ![o] = 1]
            /\ FlReturn(o, "true")
            /\ UNCHANGED <<flFsVars, flProc, flFd>>
       ELSE IF RetryAllowed(o)
            THEN /\ flPc' = [flPc EXCEPT ![o] = "open"]
                 /\ UNCHANGED <<flFsVars, flProc, flFd, flBlocking, flTimeout, flElapsed,
                                flRet, flHeld, flTrues>>
            ELSE FlCloseAndFail(o)

\* `if self._fd:` of release, line 93 (mutant: release does not look whether
\* the object has a descriptor).
FlHasFdAlways(fd) == TRUE

FlHasFd(fd) == fd # NoFd

\* release, lines 91-93: under self._threadLock; nothing to do without a
\* descriptor.
FlReleaseCall(o) ==
    /\ UNCHANGED flFrame
    /\ flPc[o] = "idle"
    /\ flHeld' = [flHeld EXCEPT ![o] = FALSE]
    /\ flPc' = [flPc EXCEPT ![o] = IF FlHasFd(flFd[o]) THEN "rel_unlink" ELSE "idle"]
    /\ flRet' = [flRet EXCEPT ![o] = "none"]
    /\ UNCHANGED <<flFsVars, flProc, flFd, flBlocking, flTimeout, flElapsed, flTrues>>

\* release, line 94: os.unlink(self._filename); FileNotFoundError when the
\* path is gone.
FlUnlink(o) ==
    /\ UNCHANGED flFrame
    /\ flPc[o] = "rel_unlink"
    /\ IF flPath = NoFile
       THEN /\ FlReturn(o, "FileNotFoundError")
            /\ UNCHANGED <<flFsVars, flProc, flFd, flHeld, flTrues>>
       ELSE /\ flPath' = NoFile
            /\ flPc' = [flPc EXCEPT ![o] = "rel_unlock"]
            /\ UNCHANGED <<flLock, flLeaked, flProc, flFd, flBlocking, flTimeout,
                           flElapsed, flRet, flHeld, flTrues>>

\* release, line 95: fcntl.lockf(self._fd, fcntl.LOCK_UN); with self._fd None
\* it raises TypeError.
FlUnlock(o) ==
    /\ UNCHANGED flFrame
    /\ flPc[o] = "rel_unlock"
    /\ IF flFd[o] = NoFd
       THEN /\ FlReturn(o, "TypeError")
            /\ UNCHANGED <<flFsVars, flProc, flFd, flHeld, flTrues>>
       ELSE /\ flLock' = LocksDropped(flProc[o], flFd[o])
            /\ flPc' = [flPc EXCEPT ![o] = "rel_close"]
            /\ UNCHANGED <<flPath, flLeaked, flProc, flFd, flBlocking, flTimeout,
                           flElapsed, flRet, flHeld, flTrues>>

\* release, line 96: self._closeFile().
FlClose(o) ==
    /\ UNCHANGED flFrame
    /\ flPc[o] = "rel_close"
    /\ flFd' = [flFd EXCEPT ![o] = NoFd]
    /\ flLock' = LocksDropped(flProc[o], flFd[o])
    /\ flPc' = [flPc EXCEPT ![o] = "idle"]
    /\ UNCHANGED <<flPath, flLeaked, flProc, flBlocking, flTimeout, flElapsed,
                   flRet, flHeld, flTrues>>

\* The lock file is removed by something other than a FileLock (by hand, or
\* by a cleaner of the directory): what the FileNotFoundError of lines 74-82
\* and the inode comparison of line 76 are there for.
FlExternalUnlink ==
    /\ UNCHANGED flFrame
    /\ flPath # NoFile
    /\ flPath' = NoFile
    /\ UNCHANGED <<flLock, flLeaked, flObjVars>>

\* A second passes for the acquire calls that are running; past MaxTime,
\* the longest timeout, nothing depends on the time any more.
FlTick ==
    /\ UNCHANGED flFrame
    /\ \E o \in FlObjs : flPc[o] \in {"open", "lockf", "stat"} /\ flElapsed[o] < MaxTime
    /\ flElapsed' = [o \in FlObjs |->
            IF flPc[o] \in {"open", "lockf", "stat"} /\ flElapsed[o] < MaxTime
            THEN flElapsed[o] + 1 ELSE flElapsed[o]]
    /\ UNCHANGED <<flFsVars, flProc, flPc, flFd, flBlocking, flTimeout, flRet, flHeld, flTrues>>

\* ------------------------------------- geonorge_provider.py: configuration

\* default_CONCURRENT_GEONORGE_LARGE_TILE_DOWNLOADS
ConcurrentLargeTileDownloads == 1

\* GeonorgeCustomConfig's defaults.
DefaultDpi == 192
DefaultSizePx == 512

\* tileCacheTimeoutSec of every layer of the throttled maps, in seconds.
TileCacheTimeoutSec == 86400 * 28

\* The age in seconds a cache file written during the run can reach.
WmsRunSeconds == 1

\* A BaseTileServerConfig with its GeonorgeCustomConfig.
LayerConf(dataset, layer) ==
    [wmsDataset |-> dataset, tileLayerName |-> layer,
     dpi |-> DefaultDpi, sizePx |-> DefaultSizePx,
     enableTileCache |-> TRUE, tileCacheTimeoutSec |-> TileCacheTimeoutSec]

\* Two maps served by GeonorgeWMSDownloadProvider, each cut down to two of its
\* layers at most: the two maps share the layer kd_elver.
TileServers(mapId) ==
    IF mapId = "norway_base_throttled"
    THEN <<LayerConf("WMS_KARTDATA_GRAY", "Hoydelag"), LayerConf("WMS_KARTDATA", "kd_elver")>>
    ELSE IF mapId = "mixed_dpi"
    THEN <<LayerConf("WMS_KARTDATA_GRAY", "Hoydelag"),
           [LayerConf("WMS_KARTDATA", "kd_elver") EXCEPT !.dpi = 2 * DefaultDpi]>>
    ELSE IF mapId = "mixed_size"
    THEN <<LayerConf("WMS_KARTDATA_GRAY", "Hoydelag"),
           [LayerConf("WMS_KARTDATA", "kd_elver") EXCEPT !.sizePx = 2 * DefaultSizePx]>>
    ELSE <<LayerConf("WMS_KARTDATA", "kd_elver")>>

\* Requests through two maps whose second layer was configured with another
\* dpi, or another sizePx, than the first.
WmsMixedRequests ==
    {<<"mixed_dpi", 1, 0, 0>>, <<"mixed_size", 1, 1, 1>>}

\* The requests made, as mapId/z/x/y: two tiles of the one block of zoom 1
\* through one map, a tile of that block through the other map, and the tile
\* of zoom 0.
WmsRequests ==
    {<<"norway_base_throttled", 1, 0, 0>>,
     <<"norway_base_throttled", 1, 1, 1>>,
     <<"norway_contours_only_throttled", 1, 1, 1>>,
     <<"norway_contours_only_throttled", 0, 0, 0>>}

NoReq == [mapId |-> "none", z |-> 0, x |-> 0, y |-> 0]

\* --------------------------------- geonorge_provider.py: blocks and paths

\* _getXYWH
\* (mutant: a block is eight tiles wide at every zoom)
TilesToRequestEight(z) == 8

TilesToRequest(z) == IF 2 ^ z >= 8 THEN 8 ELSE 2 ^ z

\* The requested coordinate is snapped to the block's origin (mutant: it is
\* left as requested).
BlockOriginUnsnapped(v, n) == v

\* (mutant: it is snapped to the origin of the next block)
BlockOriginOfNext(v, n) == v - (v % n) + n

BlockOrigin(v, n) == v - (v % n)

GetXYWH(z, x, y, sizePx) ==
    LET tilesToRequest == TilesToRequest(z)
        xB == BlockOrigin(x, tilesToRequest)
        yB == BlockOrigin(y, tilesToRequest)
        x2 == xB + tilesToRequest - 1
        y2 == yB + tilesToRequest - 1
    IN  [x |-> xB, y |-> yB, x2 |-> x2, y2 |-> y2,
         width |-> sizePx * ((x2 - xB) + 1), height |-> sizePx * ((y2 - yB) + 1),
         tilesToRequest |-> tilesToRequest]

\* A path below the cache base: its directories, the numbers its file name is
\* formatted from, and the file name's ending.
\* _getTileLayerCachePath and getTileLayerCachePath
GetTileLayerCachePath(z, x, y, tileServerConf) ==
    LET g == GetXYWH(z, x, y, tileServerConf.sizePx)
    IN  [dir |-> <<tileServerConf.wmsDataset, tileServerConf.tileLayerName, z, g.x>>,
         name |-> <<g.y, g.tilesToRequest, tileServerConf.sizePx, tileServerConf.dpi,
                    g.width, g.height>>,
         ext |-> ".png"]

\* "/".join(tileLayerNames); the blake2b digest of it is taken as one to one.
RECURSIVE JoinLayerNames(_)
JoinLayerNames(tileServers) ==
    IF Len(tileServers) = 1
    THEN tileServers[1].tileLayerName
    ELSE tileServers[1].tileLayerName \o "/" \o JoinLayerNames(Tail(tileServers))

\* _getTileCompositeCachePath
GetTileCompositeCachePath(z, x, y, mapId) ==
    [dir |-> <<mapId, JoinLayerNames(TileServers(mapId)), z, x>>,
     name |-> <<y>>,
     ext |-> ""]

\* The block key (mutant: the key is made from the requested tile instead of
\* its block's origin).
LargeLockNsOfTile(req) ==
    [dir |-> <<req.mapId>>, name |-> <<req.z, req.x, req.y>>, ext |-> ".largeLock"]

\* (mutant: the key is the whole cache path of the first layer, without the
\* map id)
LargeLockNsOfLayerPath(req, tileServerConf) ==
    LET p == GetTileLayerCachePath(req.z, req.x, req.y, tileServerConf)
    IN  [dir |-> p.dir, name |-> p.name, ext |-> ".largeLock"]

\* downloadTile, lines 365-370: the block key, from the map id and the last
\* three parts of the first layer's cache path.
LargeLockNsOf(req, tileServerConf) ==
    LET p == GetTileLayerCachePath(req.z, req.x, req.y, tileServerConf)
    IN  [dir |-> <<req.mapId>>,
         name |-> <<p.dir[3], p.dir[4]>> \o p.name,
         ext |-> ".largeLock"]

\* The same, for a request through one of the maps of TileServers.
LargeLockNs(req) == LargeLockNsOf(req, TileServers(req.mapId)[1])

\* lock.endswith(".largeLock")
IsLargeLock(ns) == ns.ext = ".largeLock"

\* `time.time() - lastModTime > timeout` (mutant: a file is expired from
\* the moment its age equals the timeout).
ExpiredAtTimeout(ageSec, timeoutSec) == ageSec >= timeoutSec

Expired(ageSec, timeoutSec) == ageSec > timeoutSec

\* The same test for a file of the run (mutant: every file is expired).
CacheAlwaysExpired(timeoutSec) == TRUE

CacheExpired(timeoutSec) == Expired(WmsRunSeconds, timeoutSec)

\* _getTileCompositeFromCache, lines 282-289
RECURSIVE MinTileCacheTimeoutSec(_, _, _)
MinTileCacheTimeoutSec(tileServers, layerIdx, acc) ==
    IF layerIdx > Len(tileServers) THEN acc
    ELSE LET ts == tileServers[layerIdx]
             next == IF ~ts.enableTileCache THEN acc
                     ELSE IF layerIdx = 1 THEN ts.tileCacheTimeoutSec
                     ELSE IF acc < ts.tileCacheTimeoutSec THEN acc
                     ELSE ts.tileCacheTimeoutSec
         IN  MinTileCacheTimeoutSec(tileServers, layerIdx + 1, next)

\* _getTileCompositeFromCache, lines 291-300: the file is there and not
\* expired, so the cached composite is read under its path lock.
CompositeCacheUsable(req) ==
    /\ GetTileCompositeCachePath(req.z, req.x, req.y, req.mapId) \in DOMAIN wmsFiles
    /\ ~CacheExpired(MinTileCacheTimeoutSec(TileServers(req.mapId), 1, -1))

\* downloadTile, lines 413-425: all layers have the dpi and sizePx of the first
\* (mutant: only the dpi is compared).
LayersConsistentInDpi(tileServers) ==
    \A i \in DOMAIN tileServers : tileServers[i].dpi = tileServers[1].dpi

LayersConsistent(tileServers) ==
    \A i \in DOMAIN tileServers :
        /\ tileServers[i].dpi = tileServers[1].dpi
        /\ tileServers[i].sizePx = tileServers[1].sizePx

\* ------------------- geonorge_provider.py: NamespaceLock as the provider uses it

\* NamespaceLock(ns): __init__ run under the registry mutex.
WmsLockInit(ns) ==
    /\ namespaceLock = 0
    /\ IF InitCreates(ns)
       THEN /\ namespace' = NamespaceSet(namespace, ns, NewLock)
            /\ lockCounter' = DictSet(lockCounter, ns, 1)
       ELSE /\ lockCounter' = InitIncrement(lockCounter, ns)
            /\ UNCHANGED namespace

\* The Lock object __enter__ will acquire once __init__ has run.
WmsLockObject(ns) == IF InitCreates(ns) THEN NewLock ELSE namespace[ns]

\* __exit__ run under the registry mutex: the count is decremented, the entry
\* dropped at zero, and the Lock released.
WmsLockExit(ns) ==
    \E d \in {DictSet(lockCounter, ns, DictGet(lockCounter, ns) - 1)} :
        /\ namespaceLock = 0
        /\ IF ExitDropsEntry(d, ns)
           THEN /\ namespace' = NamespacePop(namespace, ns)
                /\ lockCounter' = DictDel(d, ns)
           ELSE /\ lockCounter' = d
                /\ UNCHANGED namespace
        /\ locked' = [locked EXCEPT ![namespace[ns]] = FALSE]
        /\ UNCHANGED namespaceLock

\* `with NamespaceLock(path):` around one read or one write of a cache file:
\* the constructor, then __enter__, which waits for the path's Lock.
WmsPathLockFree(path) == IF InitCreates(path) THEN TRUE ELSE ~locked[namespace[path]]

WmsPathLockEnter(path) ==
    /\ WmsPathLockFree(path)
    /\ WmsLockInit(path)
    /\ locked' = [locked EXCEPT ![WmsLockObject(path)] = TRUE]
    /\ UNCHANGED namespaceLock

\* The read of a cache file is inside `with NamespaceLock(path):` (mutant: the
\* file is read without the path lock).
WmsReadUnlocked(path) == TRUE

WmsReadWaits(path) == WmsPathLockFree(path)

\* `with NamespaceLock(path): return Image(filename=path)`: the read waits
\* for the path's Lock and leaves the registry as it found it.
WmsReadUnderLock(path) ==
    /\ WmsReadWaits(path)
    /\ namespaceLock = 0
    /\ UNCHANGED regVars

\* getLargeLockList, line 396
LargeLockListOf(d) ==
    LET active == ActiveLocks(d, TRUE)
        large == SelectSeq(active, LAMBDA item : IsLargeLock(item.ns))
    IN  [i \in DOMAIN large |-> large[i].ns]

GetLargeLockList == LargeLockListOf(lockCounter)

\* lines 403-405: the request sleeps and looks again (mutant: it does so
\* whenever there are more large locks than allowed, first in the list or not).
MustWaitWithoutPriority(largeLockList, ns, maxActiveLargeLocks) ==
    Len(largeLockList) > maxActiveLargeLocks

MustWait(largeLockList, ns, maxActiveLargeLocks) ==
    /\ Len(largeLockList) > maxActiveLargeLocks
    /\ ns \notin {largeLockList[i] : i \in 1..maxActiveLargeLocks}

\* --------------------------- geonorge_provider.py: one request (SpecWMS)

\* image.save(filename=path) opens the file, and later has written it.
WmsFileSet(files, path, st) ==
    [p \in DOMAIN files \cup {path} |-> IF p = path THEN st ELSE files[p]]

WmsTileServers(r) == TileServers(wmsReq[r].mapId)

WmsNs(r) == LargeLockNs(wmsReq[r])

WmsCompositePath(r) ==
    GetTileCompositeCachePath(wmsReq[r].z, wmsReq[r].x, wmsReq[r].y, wmsReq[r].mapId)

\* _getLayerFromGeonorge: the cache path of the layer the request works on.
WmsLayerPath(r) ==
    LET ts == WmsTileServers(r)[wmsLayerIdx[r]]
        g == GetXYWH(wmsReq[r].z, wmsReq[r].x, wmsReq[r].y, ts.sizePx)
    IN  GetTileLayerCachePath(wmsReq[r].z, g.x, g.y, ts)

\* _cropLargeCompositeAndCacheIt: the cache path of the tile the loops of
\* lines 316-317 are at.
WmsCropPath(r) ==
    LET g == GetXYWH(wmsReq[r].z, wmsReq[r].x, wmsReq[r].y,
                     WmsTileServers(r)[1].sizePx)
        xi == wmsCropIdx[r] \div g.tilesToRequest
        yi == wmsCropIdx[r] % g.tilesToRequest
    IN  GetTileCompositeCachePath(wmsReq[r].z, xi + g.x, yi + g.y, wmsReq[r].mapId)

\* lines 316-317: the two loops over range(gridSize) (mutant: one column of
\* the block only).
WmsGridColumn(r) == TilesToRequest(wmsReq[r].z)

WmsGridTiles(r) == TilesToRequest(wmsReq[r].z) * TilesToRequest(wmsReq[r].z)

\* downloadTile is called, lines 350-352: the composite cache is looked up
\* before any locking.
WmsCallOf(r, requests) ==
    /\ UNCHANGED wmsFrame
    /\ wmsPc[r] = "new"
    /\ \E t \in requests :
        LET req == [mapId |-> t[1], z |-> t[2], x |-> t[3], y |-> t[4]]
        IN  /\ wmsReq' = [wmsReq EXCEPT ![r] = req]
            /\ wmsPc' = [wmsPc EXCEPT ![r] =
                            IF CompositeCacheUsable(req) THEN "fast_read" ELSE "ns_init"]
    /\ UNCHANGED <<regVars, wmsFiles, wmsLayerIdx, wmsCropIdx, wmsResult, wmsGets>>

WmsCall(r) == WmsCallOf(r, WmsRequests)

\* The same call, for a map with layers that do not agree.
WmsCallMixed(r) == WmsCallOf(r, WmsMixedRequests)

\* lines 302-304 on the fast path: the cached tile is read and returned.
WmsFastRead(r) ==
    /\ UNCHANGED wmsFrame
    /\ wmsPc[r] = "fast_read"
    /\ \E path \in {WmsCompositePath(r)} :
        /\ WmsReadUnderLock(path)
        /\ wmsResult' = [wmsResult EXCEPT ![r] = "cached_fast"]
        /\ wmsPc' = [wmsPc EXCEPT ![r] = "done"]
        /\ UNCHANGED <<wmsFiles, wmsReq, wmsLayerIdx, wmsCropIdx, wmsGets>>

\* line 378: NamespaceLock(ns) is constructed.
WmsNsInit(r) ==
    /\ UNCHANGED wmsFrame
    /\ wmsPc[r] = "ns_init"
    /\ \E ns \in {WmsNs(r)} :
        /\ WmsLockInit(ns)
        /\ locked' = [locked EXCEPT ![WmsLockObject(ns)] =
                         IF InitCreates(ns) THEN FALSE ELSE @]
        /\ wmsPc' = [wmsPc EXCEPT ![r] = "ns_enter"]
        /\ UNCHANGED <<namespaceLock, wmsFiles, wmsReq, wmsLayerIdx, wmsCropIdx, wmsResult,
                       wmsGets>>

\* _namespace[ns].acquire() returns once the Lock is free (mutant: it
\* returns at once).
BlockLockNeverWaits(ns) == TRUE

BlockLockFree(ns) == ~locked[namespace[ns]]

\* line 378: __enter__ waits for the block's Lock.
WmsNsEnter(r) ==
    /\ UNCHANGED wmsFrame
    /\ wmsPc[r] = "ns_enter"
    /\ \E ns \in {WmsNs(r)} :
        /\ BlockLockFree(ns)
        /\ locked' = [locked EXCEPT ![namespace[ns]] = TRUE]
        /\ wmsPc' = [wmsPc EXCEPT ![r] = "recheck"]
        /\ UNCHANGED <<namespaceLock, namespace, lockCounter, wmsFiles, wmsReq, wmsLayerIdx,
                       wmsCropIdx, wmsResult, wmsGets>>

\* lines 386-388: the composite cache is looked up again inside the block
\* section.
WmsRecheck(r) ==
    /\ UNCHANGED wmsFrame
    /\ wmsPc[r] = "recheck"
    /\ wmsPc' = [wmsPc EXCEPT ![r] =
                    IF CompositeCacheUsable(wmsReq[r]) THEN "recheck_read" ELSE "gate"]
    /\ UNCHANGED <<regVars, wmsFiles, wmsReq, wmsLayerIdx, wmsCropIdx, wmsResult, wmsGets>>

\* lines 302-304 and 388: the cached tile is read and returned from inside the
\* block section.
WmsRecheckRead(r) ==
    /\ UNCHANGED wmsFrame
    /\ wmsPc[r] = "recheck_read"
    /\ \E path \in {WmsCompositePath(r)} :
        /\ WmsReadUnderLock(path)
        /\ wmsResult' = [wmsResult EXCEPT ![r] = "cached_recheck"]
        /\ wmsPc' = [wmsPc EXCEPT ![r] = "ns_exit"]
        /\ UNCHANGED <<wmsFiles, wmsReq, wmsLayerIdx, wmsCropIdx, wmsGets>>

\* lines 401-425: the admission loop is left (while it is not, the request
\* sleeps and lists the large locks again), and the layers' dpi and sizePx are
\* compared.
WmsGate(r) ==
    /\ UNCHANGED wmsFrame
    /\ wmsPc[r] = "gate"
    /\ \E ns \in {WmsNs(r)} :
        /\ namespaceLock = 0
        /\ ~MustWait(GetLargeLockList, ns, ConcurrentLargeTileDownloads)
        /\ IF LayersConsistent(WmsTileServers(r))
           THEN /\ wmsPc' = [wmsPc EXCEPT ![r] = "layer_stat"]
                /\ wmsLayerIdx' = [wmsLayerIdx EXCEPT ![r] = 1]
                /\ UNCHANGED wmsResult
           ELSE /\ wmsPc' = [wmsPc EXCEPT ![r] = "ns_exit"]
                /\ wmsResult' = [wmsResult EXCEPT ![r] = "error"]
                /\ UNCHANGED wmsLayerIdx
        /\ UNCHANGED <<regVars, wmsFiles, wmsReq, wmsCropIdx, wmsGets>>

\* The loop of lines 428-431 goes to the next layer, or on to the composite
\* and the crop.
WmsNextLayer(r) ==
    IF wmsLayerIdx[r] < Len(WmsTileServers(r))
    THEN /\ wmsPc' = [wmsPc EXCEPT ![r] = "layer_stat"]
         /\ wmsLayerIdx' = [wmsLayerIdx EXCEPT ![r] = @ + 1]
    ELSE /\ wmsPc' = [wmsPc EXCEPT ![r] = "crop"]
         /\ wmsLayerIdx' = [wmsLayerIdx EXCEPT ![r] = 0]

\* What os.stat may tell of a file's size: a file being written may still be
\* empty.
WmsSizeIsZero(path) == IF wmsFiles[path] = "writing" THEN BOOLEAN ELSE {FALSE}

\* getTileLayerFromCache, providers.py lines 131-151: caching disabled, file
\* missing, expired or empty is a miss.
WmsLayerStat(r) ==
    /\ UNCHANGED wmsFrame
    /\ wmsPc[r] = "layer_stat"
    /\ LET ts == WmsTileServers(r)[wmsLayerIdx[r]]
           path == WmsLayerPath(r)
       IN  IF \/ ~ts.enableTileCache
              \/ path \notin DOMAIN wmsFiles
              \/ CacheExpired(ts.tileCacheTimeoutSec)
           THEN wmsPc' = [wmsPc EXCEPT ![r] = "layer_get"]
           ELSE \E zero \in WmsSizeIsZero(path) :
                    wmsPc' = [wmsPc EXCEPT ![r] =
                                 IF zero THEN "layer_get" ELSE "layer_read"]
    /\ UNCHANGED <<regVars, wmsFiles, wmsReq, wmsLayerIdx, wmsCropIdx, wmsResult, wmsGets>>

\* getTileLayerFromCache, providers.py lines 153-155: the cached layer is read
\* under its path lock.
WmsLayerRead(r) ==
    /\ UNCHANGED wmsFrame
    /\ wmsPc[r] = "layer_read"
    /\ \E path \in {WmsLayerPath(r)} :
        /\ WmsReadUnderLock(path)
        /\ WmsNextLayer(r)
        /\ UNCHANGED <<wmsFiles, wmsReq, wmsCropIdx, wmsResult, wmsGets>>

\* lines 229-232: the WMS GET returns a valid image.
WmsLayerGet(r) ==
    /\ UNCHANGED wmsFrame
    /\ wmsPc[r] = "layer_get"
    /\ wmsGets' = [wmsGets EXCEPT ![r] = @ + 1]
    /\ IF WmsTileServers(r)[wmsLayerIdx[r]].enableTileCache
       THEN /\ wmsPc' = [wmsPc EXCEPT ![r] = "layer_save"]
            /\ UNCHANGED wmsLayerIdx
       ELSE WmsNextLayer(r)
    /\ UNCHANGED <<regVars, wmsFiles, wmsReq, wmsCropIdx, wmsResult>>

\* (mutant: the exception is caught in the layer loop, which goes on to the
\* next layer and to the crop)
WmsLayerGetFailsCaught(r) ==
    /\ UNCHANGED wmsFrame
    /\ wmsPc[r] = "layer_get"
    /\ wmsGets' = [wmsGets EXCEPT ![r] = @ + 1]
    /\ wmsResult' = [wmsResult EXCEPT ![r] = "error"]
    /\ WmsNextLayer(r)
    /\ UNCHANGED <<regVars, wmsFiles, wmsReq, wmsCropIdx>>

\* lines 229-230: the WMS GET fails (urlopen raises, or the retries are used
\* up) and the exception leaves the block section.
WmsLayerGetFails(r) ==
    /\ UNCHANGED wmsFrame
    /\ wmsPc[r] = "layer_get"
    /\ wmsGets' = [wmsGets EXCEPT ![r] = @ + 1]
    /\ wmsResult' = [wmsResult EXCEPT ![r] = "error"]
    /\ wmsLayerIdx' = [wmsLayerIdx EXCEPT ![r] = 0]
    /\ wmsPc' = [wmsPc EXCEPT ![r] = "ns_exit"]
    /\ UNCHANGED <<regVars, wmsFiles, wmsReq, wmsCropIdx>>

\* lines 240-241: the path lock is taken and image.save starts.
WmsLayerSave(r) ==
    /\ UNCHANGED wmsFrame
    /\ wmsPc[r] = "layer_save"
    /\ \E path \in {WmsLayerPath(r)} :
        /\ WmsPathLockEnter(path)
        /\ wmsFiles' = WmsFileSet(wmsFiles, path, "writing")
        /\ wmsPc' = [wmsPc EXCEPT ![r] = "layer_saved"]
        /\ UNCHANGED <<wmsReq, wmsLayerIdx, wmsCropIdx, wmsResult, wmsGets>>

\* lines 240-243: image.save is done and the path lock released.
WmsLayerSaved(r) ==
    /\ UNCHANGED wmsFrame
    /\ wmsPc[r] = "layer_saved"
    /\ \E path \in {WmsLayerPath(r)} :
        /\ wmsFiles' = WmsFileSet(wmsFiles, path, "ok")
        /\ WmsLockExit(path)
        /\ WmsNextLayer(r)
        /\ UNCHANGED <<wmsReq, wmsCropIdx, wmsResult, wmsGets>>

\* lines 433 and 318-329: the composite is made, and the next tile of the block
\* is cropped: its path lock is taken and crop.save starts.
WmsCrop(r) ==
    /\ UNCHANGED wmsFrame
    /\ wmsPc[r] = "crop"
    /\ \E path \in {WmsCropPath(r)} :
        /\ WmsPathLockEnter(path)
        /\ wmsFiles' = WmsFileSet(wmsFiles, path, "writing")
        /\ wmsPc' = [wmsPc EXCEPT ![r] = "cropped"]
        /\ UNCHANGED <<wmsReq, wmsLayerIdx, wmsCropIdx, wmsResult, wmsGets>>

\* lines 328-332 and 437: crop.save is done and the path lock released; after
\* the last tile of the block the requested tile is returned.
WmsCropped(r) ==
    /\ UNCHANGED wmsFrame
    /\ wmsPc[r] = "cropped"
    /\ \E path \in {WmsCropPath(r)} :
        /\ wmsFiles' = WmsFileSet(wmsFiles, path, "ok")
        /\ WmsLockExit(path)
        /\ IF wmsCropIdx[r] + 1 < WmsGridTiles(r)
           THEN /\ wmsPc' = [wmsPc EXCEPT ![r] = "crop"]
                /\ wmsCropIdx' = [wmsCropIdx EXCEPT ![r] = @ + 1]
                /\ UNCHANGED wmsResult
           ELSE /\ wmsPc' = [wmsPc EXCEPT ![r] = "ns_exit"]
                /\ wmsCropIdx' = [wmsCropIdx EXCEPT ![r] = 0]
                /\ wmsResult' = [wmsResult EXCEPT ![r] = "built"]
        /\ UNCHANGED <<wmsReq, wmsLayerIdx, wmsGets>>

\* line 378: __exit__ of the block's NamespaceLock, on a return or on an
\* exception, and downloadTile is left.
WmsNsExit(r) ==
    /\ UNCHANGED wmsFrame
    /\ wmsPc[r] = "ns_exit"
    /\ \E ns \in {WmsNs(r)} :
        /\ WmsLockExit(ns)
        /\ wmsPc' = [wmsPc EXCEPT ![r] = "done"]
        /\ UNCHANGED <<wmsFiles, wmsReq, wmsLayerIdx, wmsCropIdx, wmsResult, wmsGets>>

\* -------------------------------- providers.py: getTileLayerFromCache

\* Seconds: the largest age of a cache file and the largest
\* tileCacheTimeoutSec a function is called with.
MaxAgeSec == 2
MaxTimeoutSec == 2

NoCall == [fn |-> "none", args |-> <<>>]

\* What a cache file holds: nothing (zero bytes), an image, or bytes that are
\* no image.
CacheImages == {"imageA", "imageB"}
CacheData == {"", "junk"} \cup CacheImages

\* A cache path as os.path.getmtime, os.stat and Image(filename=...) see it.
MissingFile == [exists |-> FALSE, ageSec |-> 0, data |-> ""]

CacheFileStates ==
    {MissingFile} \cup [exists : {TRUE}, ageSec : 0..MaxAgeSec, data : CacheData]

NoneNone == <<"None", "None">>

\* getTileLayerFromCache, lines 131-158: the results the call can have. An
\* undecodable file makes Image(filename=path) raise: BlobError is swallowed
\* (line 156), any other wand exception leaves the function.
GetTileLayerFromCache(tileServerConf, path, file) ==
    IF tileServerConf.enableTileCache = FALSE THEN {NoneNone}
    ELSE IF ~file.exists THEN {NoneNone}
    ELSE IF Expired(file.ageSec, tileServerConf.tileCacheTimeoutSec) THEN {NoneNone}
    ELSE IF file.data = "" THEN {NoneNone}
    ELSE IF file.data \in CacheImages THEN {<<file.data, path>>}
    ELSE {NoneNone, <<"raise", "raise">>}

\* The calls of getTileLayerFromCache looked at.
LayerCacheCalls ==
    [fn : {"getTileLayerFromCache"},
     args : [enableTileCache : BOOLEAN, tileCacheTimeoutSec : 0..MaxTimeoutSec,
             path : {"cache/0/0/0", "cache/0/0/1"}, file : CacheFileStates]]

\* The call is made.
FnGetTileLayerFromCache ==
    /\ UNCHANGED fnFrame
    /\ fnCall.fn = "getTileLayerFromCache"
    /\ ~fnDone
    /\ fnRet' \in GetTileLayerFromCache(fnCall.args, fnCall.args.path, fnCall.args.file)
    /\ fnDone' = TRUE
    /\ UNCHANGED fnCall

\* ------------------ geonorge_provider.py: _getTileCompositeFromCache

\* The largest number of layers of a tile set a function is called with.
MaxLayers == 2

\* What _getTileCompositeFromCache reads of a layer's configuration.
LayerCacheConfs ==
    [enableTileCache : BOOLEAN, tileCacheTimeoutSec : 0..MaxTimeoutSec]

TileServerLists == UNION {[1..n -> LayerCacheConfs] : n \in 1..MaxLayers}

\* _getTileCompositeFromCache, lines 282-304: the results the call can
\* have. There is no size test, so an empty or undecodable file reaches
\* Image(filename=path).
GetTileCompositeFromCache(tileServers, path, file) ==
    IF ~file.exists THEN {NoneNone}
    ELSE IF Expired(file.ageSec, MinTileCacheTimeoutSec(tileServers, 1, -1))
         THEN {NoneNone}
    ELSE IF file.data \in CacheImages THEN {<<file.data, path>>}
    ELSE {NoneNone, <<"raise", "raise">>}

\* The calls of _getTileCompositeFromCache looked at.
CompositeCacheCalls ==
    [fn : {"_getTileCompositeFromCache"},
     args : [tileServers : TileServerLists, path : {"composite/0/0/0"},
             file : CacheFileStates]]

\* The call is made.
FnGetTileCompositeFromCache ==
    /\ UNCHANGED fnFrame
    /\ fnCall.fn = "_getTileCompositeFromCache"
    /\ ~fnDone
    /\ fnRet' \in GetTileCompositeFromCache(fnCall.args.tileServers,
                                            fnCall.args.path, fnCall.args.file)
    /\ fnDone' = TRUE
    /\ UNCHANGED fnCall

\* ------------------------------------ geonorge_provider.py: _getXYWH

\* The deepest zoom whose tiles are all looked at.
MaxZoom == 4

\* The tiles of a zoom.
TilesOfZoom(z) == [z : {z}, x : 0..(2 ^ z - 1), y : 0..(2 ^ z - 1)]

\* Every tile of the zooms 0..MaxZoom, and the corner tiles of zoom 30.
TileCoords ==
    UNION {TilesOfZoom(z) : z \in 0..MaxZoom}
        \cup [z : {30}, x : {0, 2 ^ 30 - 1}, y : {0, 2 ^ 30 - 1}]

\* The calls of _getXYWH looked at.
XYWHCalls ==
    [fn : {"_getXYWH"},
     args : {[z |-> t.z, x |-> t.x, y |-> t.y, sizePx |-> s] :
                t \in TileCoords, s \in {256, DefaultSizePx}}]

\* The call is made.
FnGetXYWH ==
    /\ UNCHANGED fnFrame
    /\ fnCall.fn = "_getXYWH"
    /\ ~fnDone
    /\ fnRet' = GetXYWH(fnCall.args.z, fnCall.args.x, fnCall.args.y, fnCall.args.sizePx)
    /\ fnDone' = TRUE
    /\ UNCHANGED fnCall

\* ------------- geonorge_provider.py: the cache file and the key of a block

\* A layer of a map.
MapLayers ==
    {[mapId |-> m, layerIdx |-> i] :
        <<m, i>> \in {p \in {"norway_base_throttled", "norway_contours_only_throttled"} \X (1..2) :
                        p[2] \in DOMAIN TileServers(p[1])}}

\* The call looked at: the cache file of a layer and the block key of a
\* map, for two tiles of one zoom: every tile of the zooms 0..MaxZoom, with
\* the tiles of every column in its own row, the next row and the row eight
\* below.
BlockPathCall ==
    \E z \in 0..MaxZoom :
      \E x, y, x2 \in 0..(2 ^ z - 1) :
        \E y2 \in {y, y + 1, y + 8} \cap (0..(2 ^ z - 1)) :
          \E l \in MapLayers :
            fnCall = [fn |-> "blockPaths",
                      args |-> [z |-> z, x |-> x, y |-> y, x2 |-> x2, y2 |-> y2,
                                mapId |-> l.mapId, layerIdx |-> l.layerIdx]]

\* _getTileLayerCachePath and downloadTile, lines 365-370, for both tiles.
FnBlockPaths ==
    /\ UNCHANGED fnFrame
    /\ fnCall.fn = "blockPaths"
    /\ ~fnDone
    /\ \E a \in {fnCall.args} :
         fnRet' =
           [file1 |-> GetTileLayerCachePath(a.z, a.x, a.y, TileServers(a.mapId)[a.layerIdx]),
            file2 |-> GetTileLayerCachePath(a.z, a.x2, a.y2, TileServers(a.mapId)[a.layerIdx]),
            key1 |-> LargeLockNs([mapId |-> a.mapId, z |-> a.z, x |-> a.x, y |-> a.y]),
            key2 |-> LargeLockNs([mapId |-> a.mapId, z |-> a.z, x |-> a.x2, y |-> a.y2])]
    /\ fnDone' = TRUE
    /\ UNCHANGED fnCall

\* ------------- geonorge_provider.py: the cache file a layer is read from
\*                and the one it is written to

\* The calls of _getLayerFromGeonorge looked at: every tile of TileCoords,
\* for every layer of the two maps, with a base tile of 256 or 512 pixels.
LayerPathCalls ==
    [fn : {"layerPaths"},
     args : {[z |-> t.z, x |-> t.x, y |-> t.y, mapId |-> l.mapId,
              layerIdx |-> l.layerIdx, sizePx |-> s] :
                t \in TileCoords, l \in MapLayers, s \in {256, DefaultSizePx}}]

\* _getLayerFromGeonorge: the path getTileLayerFromCache looks up for the
\* tile asked for, the block x and y are rebound to, and the path the
\* downloaded image is saved under, with the block _getTileLayerCachePath
\* computes on the way.
FnLayerPaths ==
    /\ UNCHANGED fnFrame
    /\ fnCall.fn = "layerPaths"
    /\ ~fnDone
    /\ \E a \in {fnCall.args} :
         LET ts == [TileServers(a.mapId)[a.layerIdx] EXCEPT !.sizePx = a.sizePx]
             g == GetXYWH(a.z, a.x, a.y, ts.sizePx)
         IN  fnRet' = [read |-> GetTileLayerCachePath(a.z, a.x, a.y, ts),
                       block |-> g,
                       blockOfOrigin |-> GetXYWH(a.z, g.x, g.y, ts.sizePx),
                       written |-> GetTileLayerCachePath(a.z, g.x, g.y, ts)]
    /\ fnDone' = TRUE
    /\ UNCHANGED fnCall

\* ------------- geonorge_provider.py: the block keys of two requests

\* The tiles the two requests name: two of one block of zoom 4, one of the
\* block to its left and one of the block above, the tile of zoom 5 with
\* the same coordinates, and two of the one block of zoom 3.
BlockKeyTiles ==
    {<<4, 8, 8>>, <<4, 15, 9>>, <<4, 7, 8>>, <<4, 8, 7>>, <<5, 8, 8>>, <<3, 0, 0>>, <<3, 7, 7>>}

\* The first layer of a request's map: one of two layers of two datasets, with
\* a base tile of 256 or 512 pixels at the default dpi or half of it.
BlockKeyLayers ==
    {[LayerConf(n[1], n[2]) EXCEPT !.sizePx = s, !.dpi = d] :
        n \in {<<"WMS_KARTDATA_GRAY", "Hoydelag">>, <<"WMS_KARTDATA", "kd_elver">>},
        s \in {256, DefaultSizePx},
        d \in {DefaultDpi \div 2, DefaultDpi}}

\* A request as the block key sees it: map id, tile and first layer.
BlockKeyRequests ==
    {[mapId |-> m, z |-> t[1], x |-> t[2], y |-> t[3], first |-> c] :
        m \in {"norway_base_throttled", "norway_contours_only_throttled"},
        t \in BlockKeyTiles, c \in BlockKeyLayers}

\* The call looked at: the block keys of two requests.
BlockKeyCall ==
    \E a \in BlockKeyRequests :
      \E b \in BlockKeyRequests :
        fnCall = [fn |-> "blockKeys", args |-> [a |-> a, b |-> b]]

\* downloadTile, lines 365-370, for both requests.
FnBlockKeys ==
    /\ UNCHANGED fnFrame
    /\ fnCall.fn = "blockKeys"
    /\ ~fnDone
    /\ \E a \in {fnCall.args.a}, b \in {fnCall.args.b} :
         fnRet' = [key1 |-> LargeLockNsOf(a, a.first), key2 |-> LargeLockNsOf(b, b.first)]
    /\ fnDone' = TRUE
    /\ UNCHANGED fnCall

\* ------------- providers.py: MultithreadedDownloadProvider.downloadTile

\* The most layers of a tile set downloadTile is called with.
MaxMtLayers == 3

\* A layer of the tile set as downloadTile meets it: its flag, whether
\* getTileLayerFromCache has an image for it, and what its server answers if
\* asked: an image, an exception of urlopen, or bytes that are no image.
\* Layer i of the model is layerIdx i - 1 of the code.
MtLayerStates ==
    [enableTileCache : BOOLEAN, cached : BOOLEAN, fetch : {"ok", "fail", "junk"}]

\* An image: a layer as cached or downloaded, or base.composite(overlay).
LayerImage(i) == [leaf |-> i]

CompositeOf(base, overlay) == [base |-> base, overlay |-> overlay]

NoImage == [leaf |-> 0]

\* downloadTile raised, after these GETs and these saves.
MtRaised(gets, saved) ==
    [raised |-> TRUE, layers |-> <<>>, tile |-> NoImage, gets |-> gets, saved |-> saved]

\* The keys of a dict filled by a loop over the layers in index order.
InIndexOrder(S) ==
    [k \in 1..Cardinality(S) |-> CHOOSE i \in S : Cardinality({j \in S : j < i}) = k - 1]

\* The orders in which the futures of as_completed can come.
CompletionOrders(S) ==
    {o \in [1..Cardinality(S) -> S] : \A k, l \in DOMAIN o : k # l => o[k] # o[l]}

\* _loadLayersFromCache, lines 290-304: the layers taken from the cache
\* (mutant: enableTileCache is not looked at).
LoadLayersFromCacheAnyFlag(layers) ==
    {i \in DOMAIN layers : layers[i].cached}

LoadLayersFromCache(layers) ==
    {i \in DOMAIN layers : layers[i].enableTileCache /\ layers[i].cached}

\* _downloadTileLayers, lines 251-273: the results the call can have, the
\* futures completing in any order; images is the dict's keys in the order
\* they were put in. An exception of a future returns {} and drops every
\* image; bytes that are no image make Image(blob=data) raise. If no future
\* does either, every url has its image. Every future was submitted at line
\* 255 and runs its one urlopen, whatever becomes of the others.
DownloadTileLayers(layers, urls) ==
    {[raised |-> FALSE, images |-> <<>>] : i \in {j \in urls : layers[j].fetch = "fail"}}
        \cup {[raised |-> TRUE, images |-> <<>>] : i \in {j \in urls : layers[j].fetch = "junk"}}
        \cup {[raised |-> FALSE, images |-> o] :
                o \in IF \A k \in urls : layers[k].fetch = "ok"
                      THEN CompletionOrders(urls) ELSE {}}

\* lines 323-335: the downloaded layers saved in the cache (mutant: every
\* downloaded layer is saved).
SavedLayersAll(layers, images) == {images[k] : k \in DOMAIN images}

SavedLayers(layers, images) ==
    {images[k] : k \in {l \in DOMAIN images : layers[images[l]].enableTileCache}}

\* lines 338-339: [allLayers[i]["image"] for i in range(len(allLayers))], the
\* keys of allLayers being given in dict order (mutant: the images are taken
\* in the order of the dict).
ComposedInDictOrder(allLayers) == allLayers

ComposedLayers(allLayers) == [i \in 1..Len(allLayers) |-> i]

\* _makeCompositeFromLayers, lines 275-284.
RECURSIVE OverlayFrom(_, _, _)
OverlayFrom(base, layers, i) ==
    IF i > Len(layers) THEN base
    ELSE OverlayFrom(CompositeOf(base, layers[i]), layers, i + 1)

MakeCompositeFromLayers(layers) ==
    IF Len(layers) = 1 THEN layers[1] ELSE OverlayFrom(layers[1], layers, 2)

\* downloadTile, lines 309-341: the results the call can have. The layers
\* composed are those of range(len(allLayers)): a missing index is a
\* KeyError, and no layer at all an IndexError in _makeCompositeFromLayers.
MtDownloadTile(layers) ==
    LET cachedLayers == LoadLayersFromCache(layers)
        urls == DOMAIN layers \ cachedLayers
        gets == [i \in DOMAIN layers |-> IF i \in urls THEN 1 ELSE 0]
    IN  {IF d.raised THEN MtRaised(gets, {})
         ELSE LET saved == SavedLayers(layers, d.images)
                  allLayers == InIndexOrder(cachedLayers) \o d.images
                  keys == {allLayers[k] : k \in DOMAIN allLayers}
                  composed == ComposedLayers(allLayers)
              IN  IF Len(allLayers) = 0 THEN MtRaised(gets, saved)
                  ELSE IF \E k \in DOMAIN composed : composed[k] \notin keys
                  THEN MtRaised(gets, saved)
                  ELSE [raised |-> FALSE, layers |-> composed,
                        tile |-> MakeCompositeFromLayers(
                                    [k \in DOMAIN composed |-> LayerImage(composed[k])]),
                        gets |-> gets, saved |-> saved] :
            d \in DownloadTileLayers(layers, urls)}

\* The calls of downloadTile looked at.
MtDownloadCalls ==
    [fn : {"downloadTile"},
     args : [layers : UNION {[1..n -> MtLayerStates] : n \in 1..MaxMtLayers}]]

\* The call is made.
FnMtDownloadTile ==
    /\ UNCHANGED fnFrame
    /\ fnCall.fn = "downloadTile"
    /\ ~fnDone
    /\ fnRet' \in MtDownloadTile(fnCall.args.layers)
    /\ fnDone' = TRUE
    /\ UNCHANGED fnCall

\* -------------------- geonorge_provider.py: _downloadSingleTileLayer

maxRetries == 10

\* The body of a response: the image it decodes to ("" if Image(blob=data)
\* raises OptionError) and the words of its text.
DlBodies ==
    [image : {"imageA"}, words : {{}}]
        \cup [image : {""}, words : SUBSET {"Overforbruk", "ServiceException"}]

NoBody == [image |-> "", words |-> {}]

DlUrls == {"wms?bbox=0", "wms?bbox=1"}

\* `"Overforbruk" in data.decode('ISO-8859-1')` (mutant: no body is taken
\* for an overuse message).
OveruseNever(data) == FALSE

Overuse(data) == "Overforbruk" \in data.words

\* _downloadSingleTileLayer(url) is called: lines 142-143.
DlCall ==
    /\ UNCHANGED dlFrame
    /\ dlPc = "idle"
    /\ dlUrl' \in DlUrls
    /\ numRetries' = 0
    /\ dlPc' = "top"
    /\ UNCHANGED <<dlData, dlGets, dlSlept, dlRet, dlInvalidSeen>>

\* `numRetries >= maxRetries` (mutant: the call gives up once the counter
\* is past the cap).
CapExceeded(n) == n > maxRetries

CapReached(n) == n >= maxRetries

\* lines 145-150: the cap is tested and the counter incremented.
DlTop ==
    /\ UNCHANGED dlFrame
    /\ dlPc = "top"
    /\ IF CapReached(numRetries)
       THEN /\ dlRet' = "raise"
            /\ dlPc' = "done"
            /\ UNCHANGED numRetries
       ELSE /\ numRetries' = numRetries + 1
            /\ dlPc' = "get"
            /\ UNCHANGED dlRet
    /\ UNCHANGED <<dlUrl, dlData, dlGets, dlSlept, dlInvalidSeen>>

\* line 151: the GET of the url is issued and answered with a body.
DlGet ==
    /\ UNCHANGED dlFrame
    /\ dlPc = "get"
    /\ dlGets' = dlGets + 1
    /\ dlData' \in DlBodies
    /\ dlPc' = "parse"
    /\ UNCHANGED <<dlUrl, numRetries, dlSlept, dlRet, dlInvalidSeen>>

\* line 151: urlopen raises and the exception leaves the function.
DlGetRaises ==
    /\ UNCHANGED dlFrame
    /\ dlPc = "get"
    /\ dlGets' = dlGets + 1
    /\ dlRet' = "raise"
    /\ dlPc' = "done"
    /\ UNCHANGED <<dlUrl, numRetries, dlData, dlSlept, dlInvalidSeen>>

\* lines 152-173: the body is returned as an image, or OptionError is caught:
\* an overuse message leads to the sleep, any other body to the end of the
\* except block, which is the end of the loop's body.
DlParse ==
    /\ UNCHANGED dlFrame
    /\ dlPc = "parse"
    /\ IF dlData.image # ""
       THEN /\ dlRet' = dlData.image
            /\ dlPc' = "done"
            /\ UNCHANGED dlInvalidSeen
       ELSE IF Overuse(dlData)
       THEN /\ dlPc' = "sleep"
            /\ UNCHANGED <<dlRet, dlInvalidSeen>>
       ELSE /\ dlPc' = "top"
            /\ dlInvalidSeen' = TRUE
            /\ UNCHANGED dlRet
    /\ UNCHANGED <<dlUrl, numRetries, dlData, dlGets, dlSlept>>

\* lines 168-169: time.sleep(1); continue
DlSleep ==
    /\ UNCHANGED dlFrame
    /\ dlPc = "sleep"
    /\ dlSlept' = dlSlept + 1
    /\ dlPc' = "top"
    /\ UNCHANGED <<dlUrl, numRetries, dlData, dlGets, dlRet, dlInvalidSeen>>

DlNext ==
    \/ DlCall
    \/ DlTop
    \/ DlGet
    \/ DlGetRaises
    \/ DlParse
    \/ DlSleep

\* ---------------------------------- providers.py: buildCompositeImage

\* The longest side, in pixels, of an image a function is called with.
MaxSidePx == 3

ImageSizes == [width : 1..MaxSidePx, height : 1..MaxSidePx]

\* buildCompositeImage, lines 61-72: the sizes of base and overlay when
\* base.composite(overlay) is reached. Only the widths are compared.
BuildCompositeImage(base, overlay) ==
    IF base.width # overlay.width
    THEN IF base.width > overlay.width
         THEN [base |-> overlay, overlay |-> overlay]
         ELSE [base |-> base, overlay |-> base]
    ELSE [base |-> base, overlay |-> overlay]

\* The calls of buildCompositeImage looked at.
CompositeImageCalls ==
    [fn : {"buildCompositeImage"}, args : [base : ImageSizes, overlay : ImageSizes]]

\* The call is made.
FnBuildCompositeImage ==
    /\ UNCHANGED fnFrame
    /\ fnCall.fn = "buildCompositeImage"
    /\ ~fnDone
    /\ fnRet' = BuildCompositeImage(fnCall.args.base, fnCall.args.overlay)
    /\ fnDone' = TRUE
    /\ UNCHANGED fnCall

\* --------------------------- slippy-tile-proxy-server.py: do_GET

\* The largest number of '/'-separated segments of a request path.
MaxSegs == 4

\* A request path is "/" followed by its segments joined with "/".
PathSegs == {"locks", "settings", "norway_base_throttled", "nomap", "7", "x", ""}

RequestPaths == UNION {[1..n -> PathSegs] : n \in 0..MaxSegs}

\* parseFirstLevelPaths: the paths compared with `==`.
FirstLevelPaths == {"favicon.ico", "locks", "locks-sorted", "settings"}

\* The keys of mainConf the requests name.
MainConfKeys == {"norway_base_throttled", "norway_contours_only_throttled"}

\* int(s) raises ValueError unless s is a decimal numeral.
IsInt(seg) == seg \in {"7"}

\* path.rstrip('/').lstrip('/'): the empty segments at both ends go.
RECURSIVE LStrip(_)
LStrip(segs) ==
    IF segs # <<>> /\ Head(segs) = "" THEN LStrip(Tail(segs)) ELSE segs

RECURSIVE RStrip(_)
RStrip(segs) ==
    IF segs # <<>> /\ segs[Len(segs)] = ""
    THEN RStrip(SubSeq(segs, 1, Len(segs) - 1))
    ELSE segs

\* .split('/'): the empty string splits into one empty segment.
SplitPath(segs) ==
    LET stripped == LStrip(RStrip(segs))
    IN  IF stripped = <<>> THEN <<"">> ELSE stripped

\* getTileSetConfFromUrl, lines 489-504: the exception it raises, if any.
GetTileSetConfFromUrl(segs) ==
    LET data == SplitPath(segs)
    IN  IF Len(data) < 4 THEN "ValueError"
        ELSE IF data[1] \notin MainConfKeys THEN "IndexError"
        ELSE IF ~IsInt(data[2]) \/ ~IsInt(data[3]) \/ ~IsInt(data[4]) THEN "ValueError"
        ELSE "none"

\* `except BrokenPipeError` comes first and sends nothing; `except
\* BaseException` sends 408 (mutant: the handler is `except Exception`).
AnsweredIfException(exc) == exc \notin {"BrokenPipeError", "BaseException"}

Answered408(exc) == exc # "BrokenPipeError"

\* do_GET, lines 544-575: the status lines sent. `download` is what
\* downloadTile and make_blob do (an image or an exception), `write` what
\* wfile.write(image_blob) does.
DoGet(segs, download, write) ==
    IF Len(segs) = 1 /\ segs[1] \in FirstLevelPaths THEN <<200>>
    ELSE LET parsed == GetTileSetConfFromUrl(segs)
             sent == IF parsed = "none" /\ download = "image" THEN <<200>> ELSE <<>>
             exc == IF parsed # "none" THEN parsed
                    ELSE IF download # "image" THEN download
                    ELSE write
         IN  IF exc = "none" THEN sent
             ELSE IF Answered408(exc) THEN Append(sent, 408)
             ELSE sent

\* The calls of do_GET looked at.
DoGetCalls ==
    [fn : {"do_GET"},
     args : [segs : RequestPaths,
             download : {"image", "Exception", "BaseException", "BrokenPipeError"},
             write : {"none", "BrokenPipeError", "ConnectionResetError"}]]

\* The call is made.
FnDoGet ==
    /\ UNCHANGED fnFrame
    /\ fnCall.fn = "do_GET"
    /\ ~fnDone
    /\ fnRet' = DoGet(fnCall.args.segs, fnCall.args.download, fnCall.args.write)
    /\ fnDone' = TRUE
    /\ UNCHANGED fnCall

\* -------------- geonorge_provider.py: _cropLargeCompositeAndCacheIt

\* `x == xReq and y == yReq` (mutant: every crop is taken for the requested
\* tile).
IsAnyTile(x, y, xReq, yReq) == TRUE

IsRequestedTile(x, y, xReq, yReq) == x = xReq /\ y = yReq

\* image[left:right, top:bottom] for the tile at column xi, row yi of the
\* block: the part of the large composite it holds.
CropOf(xi, yi, sizePx) ==
    [left |-> xi * sizePx, right |-> xi * sizePx + sizePx,
     top |-> yi * sizePx, bottom |-> yi * sizePx + sizePx]

NoTile == [left |-> 0, right |-> 0, top |-> 0, bottom |-> 0]

\* _cropLargeCompositeAndCacheIt, lines 313-332: the files written, each
\* with the crop saved in it, and the tile returned: the crop of the last
\* tile in the order of the loops for which the test of line 330 held.
CropLargeCompositeAndCacheIt(sizePx, z, xReq, yReq, mapId) ==
    LET g == GetXYWH(z, xReq, yReq, sizePx)
        grid == (0..(g.tilesToRequest - 1)) \X (0..(g.tilesToRequest - 1))
        pathOf(c) == GetTileCompositeCachePath(z, c[1] + g.x, c[2] + g.y, mapId)
        hits == {c \in grid : IsRequestedTile(c[1] + g.x, c[2] + g.y, xReq, yReq)}
        last == CHOOSE c \in hits :
                    \A d \in hits : d[1] < c[1] \/ (d[1] = c[1] /\ d[2] <= c[2])
    IN  [files |-> [p \in {pathOf(c) : c \in grid} |->
                        LET c == CHOOSE d \in grid : pathOf(d) = p
                        IN  CropOf(c[1], c[2], sizePx)],
         retTile |-> IF hits = {} THEN NoTile ELSE CropOf(last[1], last[2], sizePx)]

\* The calls of _cropLargeCompositeAndCacheIt looked at.
CropCalls ==
    [fn : {"_cropLargeCompositeAndCacheIt"},
     args : {[z |-> t.z, x |-> t.x, y |-> t.y, sizePx |-> DefaultSizePx, mapId |-> m] :
                t \in TileCoords,
                m \in {"norway_base_throttled", "norway_contours_only_throttled"}}]

\* The call is made.
FnCropLargeCompositeAndCacheIt ==
    /\ UNCHANGED fnFrame
    /\ fnCall.fn = "_cropLargeCompositeAndCacheIt"
    /\ ~fnDone
    /\ \E a \in {fnCall.args} :
         fnRet' = CropLargeCompositeAndCacheIt(a.sizePx, a.z, a.x, a.y, a.mapId)
    /\ fnDone' = TRUE
    /\ UNCHANGED fnCall

\* ------------------- nslock.py: getListOfActiveLocks and its caller

\* The largest refcount of a key.
MaxRefcount == 3

SnapKeys == {"a.largeLock", "b.largeLock", "c"}

\* The states of _lockCounter: every order of every subset of the keys, each
\* key with a refcount of at least 1.
Registries ==
    UNION {{d \in [1..n -> [ns : SnapKeys, refcount : 1..MaxRefcount]] :
                \A i, j \in 1..n : i # j => d[i].ns # d[j].ns} :
           n \in 0..Cardinality(SnapKeys)}

\* deepcopy(_lockCounter), or the dict built from the sorted items: an object
\* of its own (mutant: _lockCounter itself is returned).
SameObject(d) == [alias |-> TRUE, items |-> d]

NewObject(d) == [alias |-> FALSE, items |-> d]

NoSnapshot == [alias |-> FALSE, items |-> <<>>, sorted |-> FALSE, called |-> FALSE]

\* What the caller reads in the object it was returned.
HeldItems(held, reg) == IF held.alias THEN reg ELSE held.items

\* getListOfActiveLocks, lines 11-27, with return_str False.
SnapCall ==
    /\ UNCHANGED snapFrame
    /\ \E sorted_by_refcount \in BOOLEAN :
         \E locks \in {NewObject(ActiveLocks(listReg, sorted_by_refcount))} :
            listHeld' = [alias |-> locks.alias, items |-> locks.items,
                         sorted |-> sorted_by_refcount, called |-> TRUE]
    /\ UNCHANGED listReg

\* NamespaceLock.__init__, lines 33-38, as _lockCounter sees it.
SnapLockInit ==
    /\ UNCHANGED snapFrame
    /\ \E k \in SnapKeys :
         IF k \notin DictKeys(listReg)
         THEN listReg' = DictSet(listReg, k, 1)
         ELSE /\ DictGet(listReg, k) < MaxRefcount
              /\ listReg' = InitIncrement(listReg, k)
    /\ UNCHANGED listHeld

\* NamespaceLock.__exit__, lines 44-50, as _lockCounter sees it.
SnapLockExit ==
    /\ UNCHANGED snapFrame
    /\ \E k \in DictKeys(listReg) :
         \E d \in {DictSet(listReg, k, DictGet(listReg, k) - 1)} :
            listReg' = IF ExitDropsEntry(d, k) THEN DictDel(d, k) ELSE d
    /\ UNCHANGED listHeld

SnapNext ==
    \/ SnapCall
    \/ SnapLockInit
    \/ SnapLockExit

\* --------------------- geonorge_provider.py: the admission gate, one look

\* Keys of the registry: the block keys of the requests, and a cache path
\* taken as a NamespaceLock by the cache functions.
GateKeys ==
    {LargeLockNs([mapId |-> t[1], z |-> t[2], x |-> t[3], y |-> t[4]]) : t \in WmsRequests}
        \cup {GetTileLayerCachePath(1, 0, 0, LayerConf("WMS_KARTDATA", "kd_elver"))}

\* Lines 401-411, one pass of the loop over the list just taken: the request
\* sleeps and lists again, or goes on to the download.
GateLook(d, ns, maxActiveLargeLocks) ==
    IF MustWait(LargeLockListOf(d), ns, maxActiveLargeLocks) THEN "sleep" ELSE "proceed"

\* The request holds NamespaceLock(ns), so its key is in the registry d; d is
\* any order of any of the keys, with refcounts from 1 on.
GateCall ==
    \E n \in 1..Cardinality(GateKeys) :
        \E d \in [1..n -> [ns : GateKeys, refcount : 1..MaxRefcount]] :
            /\ \A i, j \in 1..n : i # j => d[i].ns # d[j].ns
            /\ \E i \in 1..n, m \in 1..2 :
                /\ IsLargeLock(d[i].ns)
                /\ fnCall = [fn |-> "gate",
                             args |-> [d |-> d, ns |-> d[i].ns, maxActiveLargeLocks |-> m]]

\* The look is taken.
FnGate ==
    /\ UNCHANGED fnFrame
    /\ fnCall.fn = "gate"
    /\ ~fnDone
    /\ \E a \in {fnCall.args} :
         fnRet' = GateLook(a.d, a.ns, a.maxActiveLargeLocks)
    /\ fnDone' = TRUE
    /\ UNCHANGED fnCall

\* ------------------------ providers.py: saving and reading cached layers

NumCacheThreads == 2
MaxClock == 2

CacheThreads == 1..NumCacheThreads
CachePaths == {"cache/0/0/0", "cache/0/0/1"}

\* layer["image"].save(filename=...) writes the encoded image, and
\* Image(filename=...) decodes the bytes of the file.
Encode(image) == <<"PNG", image>>
Decode(data) == data[2]

NoCacheFile == [exists |-> FALSE, mtime |-> 0, data |-> <<>>]
NoCacheArg == [op |-> "none", path |-> "", image |-> "", timeoutSec |-> 0]
NoPut == [image |-> "", time |-> 0]

\* The configuration of a layer that is saved to the cache (line 326) and
\* read back.
CachedLayerConf(timeoutSec) ==
    [enableTileCache |-> TRUE, tileCacheTimeoutSec |-> timeoutSec]

\* A thread between two calls.
CacheRestPcs == {"idle", "get_done", "put_done"}

\* Writing a file sets its modification time (mutant: the file keeps the
\* time it had).
PutKeepsMtime(old, now) == old

PutMtime(old, now) == now

\* The image a read of `path` beginning now is due: the one of the last
\* completed save, if no save is underway and the save is within the timeout.
CacheDue(path, timeoutSec) ==
    IF /\ cacheLastPut[path] # NoPut
       /\ cacheLock[path] = 0
       /\ cacheClock - cacheLastPut[path].time <= timeoutSec
    THEN cacheLastPut[path].image
    ELSE ""

CacheReturn(t, ret) ==
    /\ cacheRet' = [cacheRet EXCEPT ![t] = ret]
    /\ cachePc' = [cachePc EXCEPT ![t] = "get_done"]

\* getTileLayerFromCache, lines 131-144: the flag, getmtime and the expiry.
CacheGetCall(t) ==
    /\ UNCHANGED cacheFrame
    /\ cachePc[t] \in CacheRestPcs
    /\ \E path \in CachePaths, timeoutSec \in 0..MaxTimeoutSec :
       \E tileServerConf \in {CachedLayerConf(timeoutSec)} :
         /\ cacheArg' = [cacheArg EXCEPT ![t] =
                [op |-> "get", path |-> path, image |-> "", timeoutSec |-> timeoutSec]]
         /\ cacheExpect' = [cacheExpect EXCEPT ![t] = CacheDue(path, timeoutSec)]
         /\ IF tileServerConf.enableTileCache = FALSE THEN CacheReturn(t, NoneNone)
            ELSE IF ~cacheStore[path].exists THEN CacheReturn(t, NoneNone)
            ELSE IF Expired(cacheClock - cacheStore[path].mtime,
                            tileServerConf.tileCacheTimeoutSec)
                 THEN CacheReturn(t, NoneNone)
            ELSE /\ cachePc' = [cachePc EXCEPT ![t] = "get_stat"]
                 /\ cacheRet' = [cacheRet EXCEPT ![t] = NoneNone]
    /\ UNCHANGED <<cacheClock, cacheStore, cacheLock, cacheLastPut>>

\* Lines 146-151: a file of zero bytes is ignored.
CacheGetStat(t) ==
    /\ UNCHANGED cacheFrame
    /\ cachePc[t] = "get_stat"
    /\ IF Len(cacheStore[cacheArg[t].path].data) = 0
       THEN CacheReturn(t, NoneNone)
       ELSE /\ cachePc' = [cachePc EXCEPT ![t] = "get_read"]
            /\ UNCHANGED cacheRet
    /\ UNCHANGED <<cacheClock, cacheStore, cacheLock, cacheArg, cacheLastPut, cacheExpect>>

\* Lines 153-158: the file is read under the NamespaceLock of its path. A
\* file emptied since the size test does not decode: BlobError gives
\* (None, None), another wand exception leaves the function.
CacheGetRead(t) ==
    /\ UNCHANGED cacheFrame
    /\ cachePc[t] = "get_read"
    /\ cacheLock[cacheArg[t].path] = 0
    /\ IF Len(cacheStore[cacheArg[t].path].data) = 0
       THEN \E ret \in {NoneNone, <<"raise", "raise">>} : CacheReturn(t, ret)
       ELSE CacheReturn(t, <<Decode(cacheStore[cacheArg[t].path].data), cacheArg[t].path>>)
    /\ UNCHANGED <<cacheClock, cacheStore, cacheLock, cacheArg, cacheLastPut, cacheExpect>>

\* downloadTile, lines 326-335: for a layer with caching enabled the
\* NamespaceLock of the path is taken and
\* save opens the file, which truncates it. A read of the path that is
\* underway is no longer due the earlier image.
CachePutCall(t) ==
    /\ UNCHANGED cacheFrame
    /\ cachePc[t] \in CacheRestPcs
    /\ \E path \in CachePaths, image \in CacheImages :
         /\ CachedLayerConf(0).enableTileCache
         /\ cacheLock[path] = 0
         /\ cacheLock' = [cacheLock EXCEPT ![path] = t]
         /\ cacheArg' = [cacheArg EXCEPT ![t] =
                [op |-> "put", path |-> path, image |-> image, timeoutSec |-> 0]]
         /\ cacheStore' = [cacheStore EXCEPT ![path] =
                [exists |-> TRUE, mtime |-> cacheClock, data |-> <<>>]]
         /\ cacheExpect' = [q \in CacheThreads |->
                IF q = t \/ (cachePc[q] \in {"get_stat", "get_read"} /\ cacheArg[q].path = path)
                THEN "" ELSE cacheExpect[q]]
    /\ cachePc' = [cachePc EXCEPT ![t] = "put_write"]
    /\ cacheRet' = [cacheRet EXCEPT ![t] = NoneNone]
    /\ UNCHANGED <<cacheClock, cacheLastPut>>

\* Line 335: the image is written and the lock is released.
CachePutWrite(t) ==
    /\ UNCHANGED cacheFrame
    /\ cachePc[t] = "put_write"
    /\ cacheStore' = [cacheStore EXCEPT ![cacheArg[t].path] =
            [exists |-> TRUE,
             mtime |-> PutMtime(cacheStore[cacheArg[t].path].mtime, cacheClock),
             data |-> Encode(cacheArg[t].image)]]
    /\ cacheLock' = [cacheLock EXCEPT ![cacheArg[t].path] = 0]
    /\ cacheLastPut' = [cacheLastPut EXCEPT ![cacheArg[t].path] =
            [image |-> cacheArg[t].image, time |-> cacheClock]]
    /\ cachePc' = [cachePc EXCEPT ![t] = "put_done"]
    /\ UNCHANGED <<cacheClock, cacheArg, cacheRet, cacheExpect>>

\* A second passes.
CacheTick ==
    /\ UNCHANGED cacheFrame
    /\ cacheClock < MaxClock
    /\ cacheClock' = cacheClock + 1
    /\ UNCHANGED <<cacheStore, cacheLock, cachePc, cacheArg, cacheRet,
                   cacheLastPut, cacheExpect>>

CacheNext ==
    \/ \E t \in CacheThreads : CacheGetCall(t)
    \/ \E t \in CacheThreads : CacheGetStat(t)
    \/ \E t \in CacheThreads : CacheGetRead(t)
    \/ \E t \in CacheThreads : CachePutCall(t)
    \/ \E t \in CacheThreads : CachePutWrite(t)
    \/ CacheTick

\* ------------------------------------------------------- specifications

vars == <<nsVars, flVars, wmsVars, auxVars>>

NsInit ==
    /\ namespaceLock = 0
    /\ namespace = <<>>
    /\ lockCounter = <<>>
    /\ locked = [l \in LockIds |-> FALSE]
    /\ nsPc = [t \in NsThreads |-> "idle"]
    /\ nsKey = [t \in NsThreads |-> "k1"]
    /\ nsLockRef = [t \in NsThreads |-> NoLock]
    /\ nsExc = [t \in NsThreads |-> "none"]
    /\ nsResult = [t \in NsThreads |-> "none"]
    /\ listPc = "idle"
    /\ listSnap = <<>>

FlInit ==
    /\ flPath = NoFile
    /\ flLock = [i \in FlInodes |-> NoProc]
    /\ flLeaked = {}
    /\ flProc = [o \in FlObjs |-> NoProc]
    /\ flPc = [o \in FlObjs |-> "new"]
    /\ flFd = [o \in FlObjs |-> NoFd]
    /\ flBlocking = [o \in FlObjs |-> FALSE]
    /\ flTimeout = [o \in FlObjs |-> -1]
    /\ flElapsed = [o \in FlObjs |-> 0]
    /\ flRet = [o \in FlObjs |-> "none"]
    /\ flHeld = [o \in FlObjs |-> FALSE]
    /\ flTrues = [o \in FlObjs |-> 0]

\* No request has been made and the cache directory is empty.
WmsInit ==
    /\ wmsFiles = <<>>
    /\ wmsPc = [r \in WmsReqs |-> "new"]
    /\ wmsReq = [r \in WmsReqs |-> NoReq]
    /\ wmsLayerIdx = [r \in WmsReqs |-> 0]
    /\ wmsCropIdx = [r \in WmsReqs |-> 0]
    /\ wmsResult = [r \in WmsReqs |-> "none"]
    /\ wmsGets = [r \in WmsReqs |-> 0]

\* No function call is being looked at.
FnIdle ==
    /\ fnCall = NoCall
    /\ fnDone = FALSE
    /\ fnRet = NoCall

\* An empty cache directory and no thread in the cache.
CacheInit ==
    /\ cacheClock = 0
    /\ cacheStore = [p \in CachePaths |-> NoCacheFile]
    /\ cacheLock = [p \in CachePaths |-> 0]
    /\ cachePc = [t \in CacheThreads |-> "idle"]
    /\ cacheArg = [t \in CacheThreads |-> NoCacheArg]
    /\ cacheRet = [t \in CacheThreads |-> NoneNone]
    /\ cacheLastPut = [p \in CachePaths |-> NoPut]
    /\ cacheExpect = [t \in CacheThreads |-> ""]

\* _downloadSingleTileLayer has not been called.
DlInit ==
    /\ dlPc = "idle"
    /\ dlUrl = ""
    /\ numRetries = 0
    /\ dlData = NoBody
    /\ dlGets = 0
    /\ dlSlept = 0
    /\ dlRet = "none"
    /\ dlInvalidSeen = FALSE

\* No lock is registered and getListOfActiveLocks has not been called.
SnapIdle ==
    /\ listReg = <<>>
    /\ listHeld = NoSnapshot

Init == NsInit /\ FlInit /\ WmsInit /\ FnIdle /\ CacheInit /\ DlInit /\ SnapIdle

\* getListOfActiveLocks is called with some locks registered.
SnapInit ==
    /\ NsInit /\ FlInit /\ WmsInit /\ FnIdle /\ CacheInit /\ DlInit
    /\ listReg \in Registries
    /\ listHeld = NoSnapshot

NsNext ==
    \E t \in NsThreads :
        \/ NsInitLock(t)
        \/ NsInitCheck(t)
        \/ NsInitCount(t)
        \/ NsEnterLookup(t)
        \/ NsEnterAcquire(t)
        \/ NsBody(t)
        \/ NsExitLock(t)
        \/ NsExitDec(t)
        \/ NsExitTest(t)
        \/ NsExitDel(t)
        \/ NsExitRelease(t)
        \/ NsForget(t)

ListNext ==
    \/ NsListLock
    \/ NsListCopy
    \/ NsListReturn

FlNext ==
    \/ \E o \in FlObjs :
        \/ FlConstruct(o)
        \/ FlAcquireCall(o)
        \/ FlOpen(o)
        \/ FlLockf(o)
        \/ FlStat(o)
        \/ FlReleaseCall(o)
        \/ FlUnlink(o)
        \/ FlUnlock(o)
        \/ FlClose(o)
    \/ FlTick

\* The steps of request r while the WMS server answers every GET with a valid
\* image.
WmsStep(r) ==
    \/ WmsCall(r)
    \/ WmsFastRead(r)
    \/ WmsNsInit(r)
    \/ WmsNsEnter(r)
    \/ WmsRecheck(r)
    \/ WmsRecheckRead(r)
    \/ WmsGate(r)
    \/ WmsLayerStat(r)
    \/ WmsLayerRead(r)
    \/ WmsLayerGet(r)
    \/ WmsLayerSave(r)
    \/ WmsLayerSaved(r)
    \/ WmsCrop(r)
    \/ WmsCropped(r)
    \/ WmsNsExit(r)

WmsNext == \E r \in WmsReqs : WmsStep(r)

WmsMixedNext == \E r \in WmsReqs : WmsStep(r) \/ WmsCallMixed(r)

WmsFaultyNext == \E r \in WmsReqs : WmsStep(r) \/ WmsLayerGetFails(r)

\* One call of a function, over the arguments looked at.
FnInit ==
    /\ NsInit /\ FlInit /\ WmsInit /\ CacheInit /\ DlInit /\ SnapIdle
    /\ fnDone = FALSE
    /\ fnRet = NoCall
    /\ \/ GateCall
       \/ fnCall \in LayerCacheCalls
       \/ fnCall \in CompositeCacheCalls
       \/ fnCall \in XYWHCalls
       \/ BlockPathCall
       \/ fnCall \in LayerPathCalls
       \/ BlockKeyCall
       \/ fnCall \in MtDownloadCalls
       \/ fnCall \in CompositeImageCalls
       \/ fnCall \in DoGetCalls
       \/ fnCall \in CropCalls

FnNext ==
    \/ FnGate
    \/ FnGetTileLayerFromCache
    \/ FnGetTileCompositeFromCache
    \/ FnGetXYWH
    \/ FnBlockPaths
    \/ FnLayerPaths
    \/ FnBlockKeys
    \/ FnMtDownloadTile
    \/ FnBuildCompositeImage
    \/ FnDoGet
    \/ FnCropLargeCompositeAndCacheIt

\* Threads taking and releasing NamespaceLocks, and listing the registry.
SpecNS == Init /\ [][NsNext \/ ListNext]_vars

\* FileLock objects acquiring and releasing the lock on one path.
SpecFL == Init /\ [][FlNext]_vars

\* The same, with a kernel that may refuse the advisory lock for want of lock
\* records.
FlFaultNext ==
    \/ FlNext
    \/ \E o \in FlObjs : FlLockfFault(o)

SpecFLFault == Init /\ [][FlFaultNext]_vars

\* FileLock objects on a path that may be removed behind their back.
FlUnlinkedNext ==
    \/ FlNext
    \/ FlExternalUnlink

SpecFLUnlinked == Init /\ [][FlUnlinkedNext]_vars

\* Concurrent requests to the WMS provider, some of them through maps whose
\* layers do not agree in dpi or sizePx.
SpecWMSMixed == Init /\ [][WmsMixedNext]_vars

\* Concurrent requests to the WMS provider, the WMS server always answering.
SpecWMS == Init /\ [][WmsNext]_vars

\* Concurrent requests to the WMS provider, GETs failing or not.
SpecWMSFaulty == Init /\ [][WmsFaultyNext]_vars

\* Concurrent requests to the WMS provider, GETs failing or not; every thread
\* that can take a step eventually takes one.
\* One call of _downloadSingleTileLayer against a server that answers as
\* it likes.
SpecDl == Init /\ [][DlNext]_vars

\* The same call, which runs on: the thread is scheduled, and urlopen
\* returns or raises within its timeout.
FairSpecDl == Init /\ [][DlNext]_vars /\ WF_vars(DlNext)

\* Callers of getListOfActiveLocks while locks are constructed and left.
SpecSnap == SnapInit /\ [][SnapNext]_vars

\* Threads saving layers to the cache and reading them back.
SpecCache == Init /\ [][CacheNext]_vars

\* The functions of the providers, each applied to the arguments of FnInit.
SpecFn == FnInit /\ [][FnNext]_vars

FairSpecWMS ==
    /\ Init
    /\ [][WmsFaultyNext]_vars
    /\ \A r \in WmsReqs : WF_vars(WmsStep(r) \/ WmsLayerGetFails(r))

\* ------------------------------------------------ claims on nslock.py

\* The thread is inside the body of its `with NamespaceLock(key)`.
NsInBody(t) == nsPc[t] = "body"

\* The threads that have constructed a NamespaceLock for k (their increment
\* is done) and have not yet run the decrement of its __exit__.
NsUsers(k) ==
    {t \in NsThreads : nsKey[t] = k /\
        nsPc[t] \in {"enter_lookup", "enter_acquire", "body", "exit_wait"}}

\* C4: for every key, at most one thread at a time is inside the body of
\* `with NamespaceLock(key)`, and __enter__ always finds the key's entry.
NsMutualExclusion ==
    \A t \in NsThreads :
        /\ nsPc[t] # "keyerror"
        /\ \A u \in NsThreads \ {t} :
            (NsInBody(t) /\ NsInBody(u)) => nsKey[t] # nsKey[u]

\* C4 witness: one thread is in the body while another one, which has
\* constructed a NamespaceLock for the same key, waits in __enter__.
NsContended ==
    \E t, u \in NsThreads :
        /\ NsInBody(t)
        /\ nsPc[u] = "enter_acquire"
        /\ nsKey[u] = nsKey[t]

\* C5: the refcount getListOfActiveLocks reports for a key is the number of
\* threads between the construction of a NamespaceLock for that key and the
\* end of its __exit__.
NsRefcountIsUsers ==
    listPc = "list_release" =>
        \A i \in DOMAIN listSnap :
            listSnap[i].refcount = Cardinality(NsUsers(listSnap[i].ns))

\* C5 witness: a list that reports a key with a holder and a waiter.
NsListedTwoUsers ==
    /\ listPc = "list_release"
    /\ \E i \in DOMAIN listSnap : listSnap[i].refcount = 2

\* C6: whenever the registry mutex is free, _namespace and _lockCounter have
\* the same keys, every refcount is at least 1, and a key has an entry exactly
\* when some thread is using it (so the registry is empty when none is).
NsRegistryConsistent ==
    namespaceLock = 0 =>
        \A k \in NsKeys :
            /\ k \in DOMAIN namespace <=> k \in DictKeys(lockCounter)
            /\ k \in DictKeys(lockCounter) => DictGet(lockCounter, k) >= 1
            /\ k \in DictKeys(lockCounter) <=> NsUsers(k) # {}

\* C6 witness: the last holder has left and the registry is empty again.
NsEntryDropped ==
    /\ namespaceLock = 0
    /\ lockCounter = <<>>
    /\ DOMAIN namespace = {}
    /\ \E t \in NsThreads : nsPc[t] = "exited"

\* C7: however the guarded block ends, __exit__ runs, decrements the
\* refcount, leaves the per-key mutex free, and an exception of the block
\* reaches the caller.
NsReleasedOnEveryExit ==
    [][\A t \in NsThreads :
        /\ (nsPc[t] = "body" /\ nsPc'[t] # "body") => nsPc'[t] = "exit_wait"
        /\ (nsPc[t] = "exit_dec" /\ nsPc'[t] # "exit_dec") =>
            DictGet(lockCounter', nsKey[t]) = DictGet(lockCounter, nsKey[t]) - 1
        /\ (nsPc[t] = "exit_release" /\ nsPc'[t] # "exit_release") =>
            /\ nsPc'[t] = "exited"
            /\ locked[nsLockRef[t]] /\ ~locked'[nsLockRef[t]]
            /\ nsResult'[t] = IF nsExc[t] = "raise" THEN "raised" ELSE nsExc[t]]_vars

\* C7 witness: a block that raised has been left, and the caller has the
\* exception.
NsExitedRaising ==
    \E t \in NsThreads : nsPc[t] = "exited" /\ nsExc[t] = "raise" /\ nsResult[t] = "raised"

\* ------------------------------------------------ claims on filelock.py

\* C9: at most one FileLock object on the path is between an acquire that
\* returned True and its release, and such an object has the lock file: its
\* descriptor is open on the inode the path names.
FlMutualExclusion ==
    \A o \in FlObjs :
        flHeld[o] =>
            /\ flFd[o] # NoFd /\ flPath = flFd[o]
            /\ \A h \in FlObjs \ {o} : ~flHeld[h]

\* C9 witness: an object holds the lock while another object, in the same
\* process, is in a blocking acquire that found the lock file.
FlHeldAndContended ==
    \E o, h \in FlObjs :
        /\ o # h /\ flProc[o] = flProc[h]
        /\ flHeld[h] /\ flPc[h] = "idle" /\ flRet[h] = "true"
        /\ flPc[o] = "open" /\ flBlocking[o] /\ flPath # NoFile

\* The lock file exists because another FileLock holds it, and o is about to
\* open it.
FlCollision(o) ==
    /\ flPc[o] = "open"
    /\ flPath # NoFile
    /\ \E h \in FlObjs \ {o} : flHeld[h]

\* C10: on such a collision acquire goes on retrying if it is blocking and its
\* timeout has not elapsed; otherwise its next step is to return False with
\* no descriptor (it does not raise).
FlCollisionRetriesOrFails ==
    [][\A o \in FlObjs :
        FlCollision(o) =>
            IF flBlocking[o] /\ (flTimeout[o] = -1 \/ flElapsed[o] < flTimeout[o])
            THEN flPc'[o] = "open"
            ELSE \/ flPc'[o] = "open"
                 \/ flPc'[o] = "idle" /\ flRet'[o] = "false" /\ flFd'[o] = NoFd]_vars

\* ------------------------------------- claims on geonorge_provider.py

\* The request is past the admission gate and inside the block section: it
\* fetches layers, composes, or crops and caches.
WmsInBlockSection(r) ==
    wmsPc[r] \in {"layer_stat", "layer_read", "layer_get", "layer_save", "layer_saved",
                  "crop", "cropped"}

WmsStarted == {r \in WmsReqs : wmsPc[r] # "new"}

\* The block of the request's tile: z and the block's origin.
WmsBlock(r) ==
    LET g == GetXYWH(wmsReq[r].z, wmsReq[r].x, wmsReq[r].y, DefaultSizePx)
    IN  <<wmsReq[r].z, g.x, g.y>>

\* C1: of two concurrent requests whose tiles lie in the same block, whatever
\* tile and whatever map id each names, at most one at a time executes the
\* block section.
WmsOneBlockSectionPerBlock ==
    \A r \in WmsStarted, q \in WmsStarted :
        (r # q /\ WmsBlock(r) = WmsBlock(q))
            => ~(WmsInBlockSection(r) /\ WmsInBlockSection(q))

\* Every request made so far names the same map and the same block.
WmsOneMapOneBlock ==
    \A r \in WmsStarted, q \in WmsStarted :
        wmsReq[r].mapId = wmsReq[q].mapId /\ WmsBlock(r) = WmsBlock(q)

WmsReturnedTile(r) == wmsResult[r] \in {"built", "cached_fast", "cached_recheck"}

\* C2: when all requests are for tiles of one block of one map with L layers
\* (caches empty at the start, timeouts longer than the run, every GET
\* answered), at most one request issues GETs, it issues L of them, and every
\* other request returns the tile from the composite cache, on the fast path or
\* on the re-check, without any GET.
WmsCoalescing ==
    WmsOneMapOneBlock =>
        /\ Cardinality({r \in WmsStarted : wmsGets[r] > 0}) <= 1
        /\ \A r \in WmsStarted :
            /\ wmsGets[r] <= Len(WmsTileServers(r))
            /\ wmsPc[r] = "done" =>
                /\ WmsReturnedTile(r)
                /\ wmsResult[r] = "built" <=> wmsGets[r] = Len(WmsTileServers(r))
                /\ wmsResult[r] # "built" <=> wmsGets[r] = 0
                /\ \E q \in WmsStarted : wmsGets[q] = Len(WmsTileServers(q))

\* All requests were for one block of the two-layer map and have returned:
\* one made the two GETs, another found the tile on the re-check.
WmsCoalesced ==
    /\ WmsStarted = WmsReqs
    /\ WmsOneMapOneBlock
    /\ \A r \in WmsReqs : wmsPc[r] = "done"
    /\ \E r \in WmsReqs : wmsResult[r] = "built" /\ wmsGets[r] = 2
    /\ \E r \in WmsReqs : wmsResult[r] = "cached_recheck" /\ wmsGets[r] = 0
    /\ \E r \in WmsReqs, q \in WmsReqs : wmsReq[r] # wmsReq[q]

\* C3: at every instant the requests past the admission gate and inside a
\* block section number at most concurrentLargeTileDownloads.
WmsAdmissionBound ==
    Cardinality({r \in WmsReqs : WmsInBlockSection(r)}) <= ConcurrentLargeTileDownloads

\* C8: every request that was made eventually returns, a tile or an error.
WmsEveryRequestReturns ==
    \A r \in WmsReqs :
        (wmsPc[r] # "new") ~> (wmsPc[r] = "done" /\ wmsResult[r] # "none")

\* A request sleeps in the admission loop while a peer holds another block
\* lock.
WmsWaitingAtGate ==
    \E r \in WmsReqs :
        /\ wmsPc[r] = "gate"
        /\ MustWait(GetLargeLockList, WmsNs(r), ConcurrentLargeTileDownloads)
        /\ \E q \in WmsReqs : WmsInBlockSection(q)

\* ------------------------------------- claims on filelock.py: release

\* C11: release by an object without a descriptor changes neither the object
\* nor the lock file, whoever holds the lock; release by the holder unlinks
\* the holder's own file (the path is there), drops its advisory lock and
\* closes the descriptor, which leaves the object not holding; and whenever no
\* object has a descriptor the lock file is gone, so the next acquire can
\* create it.
FlReleaseFrees ==
    /\ [][\A o \in FlObjs :
            /\ (FlReleaseCall(o) /\ flFd[o] = NoFd)
                   => UNCHANGED <<flFsVars, flFd, flPc, flHeld>>
            /\ (flPc[o] = "rel_unlink" /\ flPc'[o] # "rel_unlink")
                   => flPath = flFd[o] /\ flPath' = NoFile /\ flPc'[o] = "rel_unlock"
            /\ (flPc[o] = "rel_unlock" /\ flPc'[o] # "rel_unlock")
                   => flLock'[flFd[o]] = NoProc /\ flPc'[o] = "rel_close"
            /\ (flPc[o] = "rel_close" /\ flPc'[o] # "rel_close")
                   => /\ flFd'[o] = NoFd
                      /\ ~flHeld'[o]
                      /\ flPath' # flFd[o]
                      /\ flLock'[flFd[o]] = NoProc]_vars
    /\ []((\A o \in FlObjs : flFd[o] = NoFd) => flPath = NoFile)

\* One object is finishing its release, its file unlinked, while another
\* already holds the lock on a new file.
FlReleasedAndRetaken ==
    \E o \in FlObjs, q \in FlObjs :
        /\ o # q
        /\ flPc[o] = "rel_close"
        /\ flHeld[q] /\ flPath = flFd[q]

\* ------------------------------ claims on the cache files of the provider

WmsReadPcs == {"fast_read", "recheck_read", "layer_read"}

\* The cache file a request is about to read.
WmsReadPath(r) ==
    IF wmsPc[r] = "layer_read" THEN WmsLayerPath(r) ELSE WmsCompositePath(r)

\* C12: whenever a request reads a cache file as an entry (a layer block, or a
\* composite tile on the fast path or on the re-check), no write of that file
\* is in progress: the file read is completely written.
WmsReadsWholeFiles ==
    [][\A r \in WmsReqs :
          (wmsPc[r] \in WmsReadPcs /\ wmsPc'[r] # wmsPc[r])
              => wmsFiles[WmsReadPath(r)] = "ok"]_vars

\* A request is about to read a cache file that another request is writing.
WmsReaderMeetsWriter ==
    \E r \in WmsReqs, q \in WmsReqs :
        /\ wmsPc[r] \in WmsReadPcs
        /\ wmsFiles[WmsReadPath(r)] = "writing"
        /\ wmsPc[q] \in {"layer_saved", "cropped"}

\* --------------------------------- claims on the functions of the cache

\* C13: getTileLayerFromCache returns (None, None) when caching is disabled
\* for the layer, the file is missing, its age is greater than
\* tileCacheTimeoutSec, or it has zero bytes; in every other case with a
\* decodable file it returns the stored image and the path.
LayerCacheReadContract ==
    (fnDone /\ fnCall.fn = "getTileLayerFromCache") =>
        LET a == fnCall.args
            empty == \/ ~a.enableTileCache
                     \/ ~a.file.exists
                     \/ a.file.ageSec > a.tileCacheTimeoutSec
                     \/ a.file.data = ""
        IN  /\ empty => fnRet = NoneNone
            /\ (~empty /\ a.file.data \in CacheImages) => fnRet = <<a.file.data, a.path>>

\* An entry whose age equals the timeout was returned as valid.
LayerCacheHitAtTimeout ==
    /\ fnDone
    /\ fnCall.fn = "getTileLayerFromCache"
    /\ fnCall.args.file.exists
    /\ fnCall.args.file.ageSec = fnCall.args.tileCacheTimeoutSec
    /\ fnCall.args.file.ageSec > 0
    /\ fnRet = <<"imageB", fnCall.args.path>>

\* C14: a read of a cache path that begins after a save of an image to it has
\* completed, within the timeout and with no other save to the path before
\* the read returns, returns exactly the image of that save; after several
\* saves that is the image of the last one.
CacheGetReturnsLastPut ==
    \A t \in CacheThreads :
        (cachePc[t] = "get_done" /\ cacheExpect[t] # "")
            => cacheRet[t] = <<cacheExpect[t], cacheArg[t].path>>

\* A thread read back imageB from a path to which imageA had been saved
\* before, a second after the save of imageB.
CacheReadAfterTwoPuts ==
    \E t, q \in CacheThreads :
        /\ cachePc[t] = "get_done"
        /\ cacheExpect[t] = "imageB"
        /\ cacheRet[t] = <<"imageB", cacheArg[t].path>>
        /\ cachePc[q] = "put_done"
        /\ cacheArg[q] = [op |-> "put", path |-> cacheArg[t].path,
                          image |-> "imageA", timeoutSec |-> 0]
        /\ cacheClock > cacheLastPut[cacheArg[t].path].time
        /\ cacheLastPut[cacheArg[t].path].time > 0

\* C15: _getTileCompositeFromCache treats an existing composite cache entry
\* as expired exactly when its age exceeds the minimum tileCacheTimeoutSec
\* over all layers of the tile set, whatever the layers' timeouts and
\* enableTileCache flags.
CompositeExpiryIsMinOverLayers ==
    (/\ fnDone
     /\ fnCall.fn = "_getTileCompositeFromCache"
     /\ fnCall.args.file.exists
     /\ fnCall.args.file.data \in CacheImages)
        => LET tileServers == fnCall.args.tileServers
               minTimeout ==
                   CHOOSE m \in {tileServers[i].tileCacheTimeoutSec : i \in DOMAIN tileServers} :
                       \A i \in DOMAIN tileServers : m <= tileServers[i].tileCacheTimeoutSec
           IN  fnRet = NoneNone <=> fnCall.args.file.ageSec > minTimeout

\* C16: for every tile (z, x, y) with z <= 30 and 0 <= x, y < 2^z, _getXYWH
\* yields N = min(8, 2^z), the origin (x - x mod N, y - y mod N) with
\* xB <= x < xB + N and yB <= y < yB + N, x2 = xB + N - 1, y2 = yB + N - 1
\* and width = height = N * sizePx; zoom 0 gives N = 1 and every tile of
\* zoom 3 has the origin (0, 0).
XYWHContract ==
    (fnDone /\ fnCall.fn = "_getXYWH") =>
        LET a == fnCall.args
            N == IF 8 <= 2 ^ a.z THEN 8 ELSE 2 ^ a.z
        IN  /\ fnRet.tilesToRequest = N
            /\ fnRet.x = a.x - (a.x % N) /\ fnRet.y = a.y - (a.y % N)
            /\ fnRet.x <= a.x /\ a.x < fnRet.x + N
            /\ fnRet.y <= a.y /\ a.y < fnRet.y + N
            /\ fnRet.x2 = fnRet.x + N - 1 /\ fnRet.y2 = fnRet.y + N - 1
            /\ fnRet.width = N * a.sizePx /\ fnRet.height = N * a.sizePx
            /\ a.z = 0 => N = 1
            /\ a.z = 3 => fnRet.x = 0 /\ fnRet.y = 0

\* The block of tile 4/13/6 was computed: origin (8, 0), eight tiles wide.
XYWHOfSecondBlock ==
    /\ fnDone
    /\ fnCall.fn = "_getXYWH"
    /\ fnCall.args = [z |-> 4, x |-> 13, y |-> 6, sizePx |-> 512]
    /\ fnRet.x = 8 /\ fnRet.y = 0 /\ fnRet.x2 = 15 /\ fnRet.y2 = 7
    /\ fnRet.width = 4096

\* C17: two tiles of one zoom that lie in the same block have the same
\* large-layer cache file for a layer and the same block lock key for a map;
\* two tiles in different blocks have different files and different keys.
BlockPathsFollowBlocks ==
    (fnDone /\ fnCall.fn = "blockPaths") =>
        LET a == fnCall.args
            N == IF 8 <= 2 ^ a.z THEN 8 ELSE 2 ^ a.z
            sameBlock == /\ a.x \div N = a.x2 \div N
                         /\ a.y \div N = a.y2 \div N
        IN  /\ sameBlock <=> fnRet.file1 = fnRet.file2
            /\ sameBlock <=> fnRet.key1 = fnRet.key2

\* Tiles 4/9/3 and 4/12/4, both of the block at (8, 0), got one file and one
\* key.
BlockPathsShared ==
    /\ fnDone
    /\ fnCall.fn = "blockPaths"
    /\ fnCall.args.z = 4
    /\ fnCall.args.x = 9 /\ fnCall.args.y = 3
    /\ fnCall.args.x2 = 12 /\ fnCall.args.y2 = 4
    /\ fnRet.file1 = fnRet.file2
    /\ fnRet.key1 = fnRet.key2
    /\ fnRet.file1.dir[4] = 8

\* C18: if the fetch of any one configured layer fails, downloadTile raises;
\* it never returns an image composed from only some of the configured
\* layers, whichever layers came from the cache and whichever layer failed.
\* Stated for the MultithreadedDownloadProvider.
DownloadTileAllOrNothing ==
    (fnDone /\ fnCall.fn = "downloadTile") =>
        LET layers == fnCall.args.layers
            fetched == DOMAIN layers \ LoadLayersFromCache(layers)
        IN  /\ (\E i \in fetched : layers[i].fetch = "fail") => fnRet.raised
            /\ ~fnRet.raised => Len(fnRet.layers) = Len(layers)

\* ------------------------------- claims on _downloadSingleTileLayer

\* C19: when a response body does not decode as an image and contains
\* "Overforbruk", _downloadSingleTileLayer sleeps one second and issues the
\* GET of the same url again; an attempt within the cap that is answered
\* with a decodable image returns that image.
DlOveruseSleepsAndRetries ==
    [][/\ (dlPc = "parse" /\ dlData.image = "" /\ "Overforbruk" \in dlData.words)
            => dlPc' = "sleep" /\ dlRet' = "none"
       /\ dlPc = "sleep"
            => dlSlept' = dlSlept + 1 /\ dlPc' = "top" /\ dlGets' = dlGets
       /\ (dlPc = "top" /\ numRetries < maxRetries)
            => dlPc' = "get" /\ dlUrl' = dlUrl
       /\ dlPc = "get"
            => dlGets' = dlGets + 1 /\ dlUrl' = dlUrl
       /\ (dlPc = "parse" /\ dlData.image # "")
            => dlRet' = dlData.image /\ dlPc' = "done"]_vars

\* The call returned the image of its third GET, the first two having been
\* answered with the overuse message and slept on.
DlImageAfterOveruse ==
    /\ dlPc = "done"
    /\ dlRet = "imageA"
    /\ dlGets = 3
    /\ dlSlept = 2
    /\ ~dlInvalidSeen

\* C20: when a response body does not decode as an image and does not
\* contain "Overforbruk", _downloadSingleTileLayer issues no further GET for
\* the url.
DlInvalidNotRetried == [][dlInvalidSeen => dlGets' = dlGets]_vars

\* C21: a call of _downloadSingleTileLayer ends whatever the server answers:
\* it issues at most 10 GETs, it ends with an image or by raising, never with
\* nothing, and when the cap is reached without a decodable image it raises.
DlTerminates ==
    /\ [](dlGets <= maxRetries /\ numRetries <= maxRetries)
    /\ [](dlPc = "done" => dlRet # "none")
    /\ []((dlPc = "top" /\ numRetries = maxRetries) => dlRet = "none")
    /\ [][(dlPc = "top" /\ numRetries = maxRetries)
             => (dlPc' = "done" /\ dlRet' = "raise" /\ dlGets' = dlGets)]_vars
    /\ (dlPc = "top") ~> (dlPc = "done")

\* The call raised after ten GETs, none of them answered with an image.
DlGaveUpAtCap ==
    /\ dlPc = "done"
    /\ dlRet = "raise"
    /\ dlGets = maxRetries
    /\ dlData.image = ""
    /\ dlSlept > 0
    /\ dlInvalidSeen

\* C22: when base and overlay differ in width or in height,
\* buildCompositeImage resizes one of them to the other's dimensions, so
\* that the two have equal width and equal height when the overlay is
\* composited.
CompositeSizesReconciled ==
    (fnDone /\ fnCall.fn = "buildCompositeImage") =>
        /\ fnRet.base.width = fnRet.overlay.width
        /\ fnRet.base.height = fnRet.overlay.height

\* C23: a GET whose path is not a first-level path and that fails (fewer
\* than four segments, unknown mapId, non-integer z/x/y, or an exception of
\* the downloader) is answered with 408 and nothing else; a broken pipe alone
\* produces no error response.
FailuresAnswered408 ==
    (fnDone /\ fnCall.fn = "do_GET") =>
        LET a == fnCall.args
            data == SplitPath(a.segs)
            firstLevel == Len(a.segs) = 1 /\ a.segs[1] \in FirstLevelPaths
            badPath == \/ Len(data) < 4
                       \/ data[1] \notin MainConfKeys
                       \/ \E i \in 2..4 : data[i] # "7"
            brokenPipe == \/ ~badPath /\ a.download = "BrokenPipeError"
                          \/ ~badPath /\ a.download = "image" /\ a.write = "BrokenPipeError"
        IN  /\ (~firstLevel /\ (badPath \/ a.download \in {"Exception", "BaseException"}))
                  => fnRet = <<408>>
            /\ (~firstLevel /\ brokenPipe) => (fnRet = <<>> \/ fnRet = <<200>>)

\* GET /norway_base_throttled/7/7/7, the downloader raising BaseException
\* (the cap of retries), was answered with 408.
DownloaderFailureAnswered ==
    /\ fnDone
    /\ fnCall.fn = "do_GET"
    /\ fnCall.args.segs = <<"norway_base_throttled", "7", "7", "7">>
    /\ fnCall.args.download = "BaseException"
    /\ fnRet = <<408>>

\* --------------------------------- further claims on the WMS provider

\* C24: a layer block that is in the layer cache, whole and fresh, is reused
\* by a request for any tile of the block, also when it was written by a
\* request through another map naming the same dataset, layer, dpi and
\* sizePx: the request issues no GET for that layer.
WmsLayerBlockReused ==
    [][\A r \in WmsReqs :
          /\ (/\ wmsPc[r] = "layer_stat"
              /\ WmsLayerPath(r) \in DOMAIN wmsFiles
              /\ wmsFiles[WmsLayerPath(r)] = "ok"
              /\ WmsTileServers(r)[wmsLayerIdx[r]].enableTileCache
              /\ WmsRunSeconds <= WmsTileServers(r)[wmsLayerIdx[r]].tileCacheTimeoutSec)
                => wmsPc'[r] \in {"layer_stat", "layer_read"} /\ wmsGets'[r] = wmsGets[r]
          /\ wmsPc[r] = "layer_read"
                => wmsPc'[r] # "layer_get" /\ wmsGets'[r] = wmsGets[r]]_vars

\* A request through norway_contours_only_throttled built its tile without
\* any GET, from the kd_elver block that a request through
\* norway_base_throttled had fetched and saved.
WmsOtherMapReusedBlock ==
    \E q, r \in WmsReqs :
        /\ wmsReq[q].mapId = "norway_base_throttled"
        /\ wmsResult[q] = "built"
        /\ wmsGets[q] = 2
        /\ wmsReq[r] = [mapId |-> "norway_contours_only_throttled", z |-> 1, x |-> 1, y |-> 1]
        /\ wmsResult[r] = "built"
        /\ wmsGets[r] = 0

\* C25: the tile returned by the request that built the block equals the
\* composite cache entry that a later identical request, made before the
\* entry expires, reads and returns for the same (mapId, z, x, y).
BuiltTileEqualsCachedTile ==
    (fnDone /\ fnCall.fn = "_cropLargeCompositeAndCacheIt") =>
        LET a == fnCall.args
            path == GetTileCompositeCachePath(a.z, a.x, a.y, a.mapId)
        IN  /\ path \in DOMAIN fnRet.files
            /\ fnRet.retTile = fnRet.files[path]
            /\ fnRet.retTile # NoTile

\* The block of tile 4/13/6 was cropped into 64 files and the tile returned
\* is the crop at column 5, row 6.
CroppedSecondBlock ==
    /\ fnDone
    /\ fnCall.fn = "_cropLargeCompositeAndCacheIt"
    /\ fnCall.args.z = 4 /\ fnCall.args.x = 13 /\ fnCall.args.y = 6
    /\ Cardinality(DOMAIN fnRet.files) = 64
    /\ fnRet.retTile = [left |-> 2560, right |-> 3072, top |-> 3072, bottom |-> 3584]

\* ------------------------------------- claims on getListOfActiveLocks

\* C26: getListOfActiveLocks returns every registered key with its refcount
\* and nothing else (nothing when no lock is registered); with
\* sorted_by_refcount the keys are in order of non-increasing refcount; and
\* what was returned is not changed by later acquires and releases.
SnapshotContract ==
    [][/\ listHeld' # listHeld =>
            LET items == HeldItems(listHeld', listReg')
            IN  /\ {items[i] : i \in DOMAIN items} = {listReg[i] : i \in DOMAIN listReg}
                /\ Len(items) = Len(listReg)
                /\ listHeld'.sorted =>
                      \A i, j \in DOMAIN items :
                          i < j => items[i].refcount >= items[j].refcount
       /\ listHeld' = listHeld =>
            HeldItems(listHeld', listReg') = HeldItems(listHeld, listReg)]_vars

\* A sorted snapshot of three keys with refcounts 3, 2 and 1 is held while
\* the key that had refcount 1 is no longer registered.
SnapshotOutlivesKey ==
    /\ listHeld.called
    /\ listHeld.sorted
    /\ Len(listHeld.items) = 3
    /\ listHeld.items[1].refcount = 3
    /\ listHeld.items[2].refcount = 2
    /\ listHeld.items[3].refcount = 1
    /\ listHeld.items[3].ns \notin DictKeys(listReg)

\* The request is inside `with NamespaceLock(ns):`, between __enter__ and
\* __exit__.
WmsHoldsBlockLock(r) ==
    wmsPc[r] \in {"recheck", "recheck_read", "gate", "ns_exit"} \/ WmsInBlockSection(r)

\* C27, as stated: a request that is at the admission gate does not hold its
\* block lock.
WmsGateBeforeBlockLock ==
    \A r \in WmsReqs :
        wmsPc[r] = "gate" =>
            \/ WmsNs(r) \notin DOMAIN namespace
            \/ ~locked[namespace[WmsNs(r)]]

\* C27, as the code has it: the admission gate is inside the block lock. A
\* request at the gate has registered its block key and holds the key's Lock,
\* alone among the requests of that key, and it came there from the second
\* look at the composite cache.
WmsGateInsideBlockLock ==
    /\ [](\A r \in WmsReqs :
            wmsPc[r] = "gate" =>
                /\ WmsNs(r) \in DOMAIN namespace
                /\ locked[namespace[WmsNs(r)]]
                /\ DictGet(lockCounter, WmsNs(r)) >= 1
                /\ \A q \in WmsReqs \ {r} :
                      WmsNs(q) = WmsNs(r) => ~WmsHoldsBlockLock(q))
    /\ [][\A r \in WmsReqs :
            (wmsPc'[r] = "gate" /\ wmsPc[r] # "gate") => wmsPc[r] = "recheck"]_vars

\* A request sleeps at the gate, holding its block lock, while a request of
\* the same key waits for that lock.
WmsGateHolderBlocksPeer ==
    \E r, q \in WmsReqs :
        /\ r # q
        /\ wmsPc[r] = "gate"
        /\ locked[namespace[WmsNs(r)]]
        /\ WmsNs(q) = WmsNs(r)
        /\ wmsPc[q] = "ns_enter"
        /\ DictGet(lockCounter, WmsNs(r)) = 2

\* ------------------------------------------ claims on the admission gate

\* The large keys of a registry, by their place in it.
LargeKeysIn(d) == {i \in DOMAIN d : IsLargeLock(d[i].ns)}

\* The large keys that the descending order puts before key i: those with a
\* larger refcount, and those with the same refcount registered after it.
LargeKeysAhead(d, i) ==
    {j \in LargeKeysIn(d) \ {i} :
        \/ d[j].refcount > d[i].refcount
        \/ d[j].refcount = d[i].refcount /\ j > i}

\* C28: a request at the gate sleeps and looks again exactly when there are
\* more active large keys than concurrentLargeTileDownloads and its own key is
\* not among the first concurrentLargeTileDownloads of them by descending
\* refcount; otherwise it goes on. A key with more waiting requests than all
\* but fewer than concurrentLargeTileDownloads of the others is never kept
\* waiting.
GateWaitsExactlyWhenOutranked ==
    (fnCall.fn = "gate" /\ fnDone) =>
        LET a == fnCall.args
            i == CHOOSE k \in DOMAIN a.d : a.d[k].ns = a.ns
            more == {j \in LargeKeysIn(a.d) : a.d[j].refcount > a.d[i].refcount}
            atLeast == {j \in LargeKeysIn(a.d) \ {i} : a.d[j].refcount >= a.d[i].refcount}
        IN  /\ fnRet \in {"sleep", "proceed"}
            /\ fnRet = "sleep" <=>
                  /\ Cardinality(LargeKeysIn(a.d)) > a.maxActiveLargeLocks
                  /\ Cardinality(LargeKeysAhead(a.d, i)) >= a.maxActiveLargeLocks
            /\ fnRet = "sleep" => Cardinality(atLeast) >= a.maxActiveLargeLocks
            /\ Cardinality(more) >= a.maxActiveLargeLocks
                  /\ Cardinality(LargeKeysIn(a.d)) > a.maxActiveLargeLocks
                  => fnRet = "sleep"

\* A request whose key has fewer waiting requests than another large key
\* sleeps, with a cache path's key of a still larger refcount in the registry.
GateOutrankedSleeps ==
    /\ fnCall.fn = "gate"
    /\ fnDone
    /\ fnRet = "sleep"
    /\ fnCall.args.maxActiveLargeLocks = 1
    /\ Len(fnCall.args.d) = 3
    /\ \E i, j, k \in DOMAIN fnCall.args.d :
        /\ fnCall.args.d[i].ns = fnCall.args.ns
        /\ IsLargeLock(fnCall.args.d[j].ns)
        /\ ~IsLargeLock(fnCall.args.d[k].ns)
        /\ fnCall.args.d[i].refcount = 1
        /\ fnCall.args.d[j].refcount = 2
        /\ fnCall.args.d[k].refcount = 3

\* ------------------------------------- claims on the registry mutex

\* The steps a thread takes inside `with _namespaceLock:`.
NsUnderRegistryMutex(t) ==
    \/ NsInitCheck(t)
    \/ NsInitCount(t)
    \/ NsExitDec(t)
    \/ NsExitTest(t)
    \/ NsExitDel(t)
    \/ NsExitRelease(t)

\* C29: a thread that is in __enter__, waiting for its key's Lock or about to,
\* never holds the registry mutex, and neither does a thread in the guarded
\* block or outside NamespaceLock. Whoever holds the registry mutex is at a
\* step of __init__, of __exit__ or of getListOfActiveLocks that can be taken
\* at once. So while a thread is blocked on one key, a thread waiting for the
\* free Lock of another key can take it, and the registry mutex is free or
\* about to be.
NsRegistryMutexNeverHeldBlocked ==
    /\ \A t \in NsThreads :
        /\ nsPc[t] \in {"idle", "enter_lookup", "enter_acquire", "body", "exit_wait",
                        "exited", "keyerror"}
              => namespaceLock # t
        /\ namespaceLock = t => ENABLED NsUnderRegistryMutex(t)
        /\ \A u \in NsThreads \ {t} :
              (/\ nsPc[t] = "enter_acquire" /\ locked[nsLockRef[t]]
               /\ nsPc[u] = "enter_acquire" /\ ~locked[nsLockRef[u]])
                  => ENABLED NsEnterAcquire(u)
    /\ namespaceLock = Lister => ENABLED (NsListCopy \/ NsListReturn)
    /\ namespaceLock \in NsThreads \cup {0, Lister}

\* One thread is blocked in __enter__ on the Lock another thread holds in its
\* guarded block, while getListOfActiveLocks runs inside the registry mutex.
NsBlockedWhileRegistryListed ==
    \E t, u \in NsThreads :
        /\ nsPc[t] = "enter_acquire"
        /\ locked[nsLockRef[t]]
        /\ nsPc[u] = "body"
        /\ nsKey[u] = nsKey[t]
        /\ namespaceLock = Lister
        /\ listPc = "list_copy"

\* ------------------------------- claims on filelock.py: errors of lockf

\* fcntl.lockf failed with EAGAIN or EACCES: acquire retries, or closes the
\* descriptor and returns False.
FlContentionStep(o) ==
    /\ flPc[o] = "lockf"
    /\ LockfOutcomes(flProc[o], flFd[o]) # {"ok"}
    /\ flPc'[o] # "lockf"

\* C30: when fcntl.lockf fails in acquire, EAGAIN and EACCES are contention
\* (retry if blocking and the timeout allows, else return False), any other
\* errno is raised to the caller as the OSError it is, and acquire raises
\* nothing else.
FlLockfErrnoSorted ==
    /\ [][\A o \in FlObjs :
            /\ FlContentionStep(o) =>
                  \/ flPc'[o] = "open"
                  \/ flPc'[o] = "idle" /\ flRet'[o] = "false" /\ flFd'[o] = NoFd
            /\ FlLockfFault(o) => (flPc'[o] = "idle" /\ flRet'[o] = "OSError")]_vars
    /\ [](\A o \in FlObjs : flRet[o] \in {"none", "true", "false", "OSError"})

\* ------------------------- claims on filelock.py: the check of the inode

\* acquire is at line 73 and the descriptor's inode is not what the path
\* names now (another file, or no file).
FlStaleAtStat(o) == flPc[o] = "stat" /\ (flPath = NoFile \/ flPath # flFd[o])

\* C31: acquire returns true from its loop only at the comparison of the
\* inodes, when they are equal; when they differ or the path is gone, the
\* object's next step closes the descriptor, whether it retries or returns
\* false; and so no descriptor of a stale lock file is left open.
FlStaleDescriptorClosed ==
    /\ [][\A o \in FlObjs :
            /\ (flPc[o] \in {"open", "lockf", "stat"} /\ flRet'[o] = "true")
                  => (flPc[o] = "stat" /\ flPath # NoFile /\ flPath = flFd[o])
            /\ (FlStaleAtStat(o) /\ flPc'[o] # "stat")
                  => (flFd'[o] = NoFd /\ flPc'[o] \in {"open", "idle"})]_vars
    /\ [](flLeaked = {})

\* --------------------------- claims on the tiles cut out of a block

\* The side of a block in tiles, and the origin of the block of a coordinate,
\* written out from the claim.
BlockSide(z) == IF 2 ^ z < 8 THEN 2 ^ z ELSE 8

Slice(i, j, sizePx) ==
    [left |-> i * sizePx, right |-> (i + 1) * sizePx,
     top |-> j * sizePx, bottom |-> (j + 1) * sizePx]

\* C32: when a request has built its block and is about to release the block
\* lock, each of the N*N tiles of the block has a composite cache file,
\* completely written, that holds the tile's own slice of the block
\* composite; these are the files the crop writes and nothing else; and the
\* value returned is the slice of the requested tile, not an empty one.
WmsBlockTilesAllCached ==
    \A r \in WmsReqs :
        (wmsPc[r] = "ns_exit" /\ wmsResult[r] = "built") =>
            LET q == wmsReq[r]
                n == BlockSide(q.z)
                xB == q.x - (q.x % n)
                yB == q.y - (q.y % n)
                ret == CropLargeCompositeAndCacheIt(DefaultSizePx, q.z, q.x, q.y, q.mapId)
                pathOf(i, j) == GetTileCompositeCachePath(q.z, xB + i, yB + j, q.mapId)
            IN  /\ \A i, j \in 0..(n - 1) :
                    /\ pathOf(i, j) \in DOMAIN wmsFiles
                    /\ wmsFiles[pathOf(i, j)] = "ok"
                    /\ pathOf(i, j) \in DOMAIN ret.files
                    /\ ret.files[pathOf(i, j)] = Slice(i, j, DefaultSizePx)
                    /\ \A k, l \in 0..(n - 1) :
                          pathOf(i, j) = pathOf(k, l) => (i = k /\ j = l)
                /\ Cardinality(DOMAIN ret.files) = n * n
                /\ ret.retTile = Slice(q.x - xB, q.y - yB, DefaultSizePx)
                /\ ret.retTile # NoTile
                /\ ret.retTile.right > ret.retTile.left
                /\ WmsNs(r) \in DOMAIN namespace
                /\ locked[namespace[WmsNs(r)]]

\* A request for tile 1/1/1 has cut its block of four tiles and still holds
\* the block lock.
WmsBlockOfFourCached ==
    \E r \in WmsReqs :
        /\ wmsPc[r] = "ns_exit"
        /\ wmsResult[r] = "built"
        /\ wmsReq[r].z = 1 /\ wmsReq[r].x = 1 /\ wmsReq[r].y = 1
        /\ wmsGets[r] > 0
        /\ locked[namespace[WmsNs(r)]]

\* ------------------------- claims on layers that do not agree in dpi or size

\* The layers of the request's map differ in dpi or in sizePx, written out
\* from the claim: some two layers differ.
WmsLayersDiffer(r) ==
    \E i, j \in DOMAIN WmsTileServers(r) :
        \/ WmsTileServers(r)[i].dpi # WmsTileServers(r)[j].dpi
        \/ WmsTileServers(r)[i].sizePx # WmsTileServers(r)[j].sizePx

\* The requests that have constructed NamespaceLock(ns) and not yet left it.
WmsKeyUsers(ns) ==
    {q \in WmsReqs : WmsNs(q) = ns /\ (wmsPc[q] = "ns_enter" \/ WmsHoldsBlockLock(q))}

\* C33: a request through a map whose layers do not all have the same dpi and
\* sizePx never fetches a layer and never crops; past the gate its next stop
\* is the end of the with block, with an error; no step of it changes a cache
\* file; and once it has returned, its block key is registered only for the
\* requests still using it (not at all if there are none) and the key's Lock
\* is not left locked by it.
WmsMixedLayersFail ==
    /\ [](\A r \in WmsReqs :
            WmsLayersDiffer(r) =>
                /\ ~WmsInBlockSection(r)
                /\ wmsResult[r] \in {"none", "error"}
                /\ wmsGets[r] = 0
                /\ wmsPc[r] \in {"ns_exit", "done"} => wmsResult[r] = "error"
                /\ wmsPc[r] = "done" =>
                      LET ns == WmsNs(r)
                      IN  IF WmsKeyUsers(ns) = {}
                          THEN ns \notin DOMAIN namespace /\ ns \notin DictKeys(lockCounter)
                          ELSE /\ DictGet(lockCounter, ns) = Cardinality(WmsKeyUsers(ns))
                               /\ locked[namespace[ns]] =>
                                     \E q \in WmsKeyUsers(ns) : WmsHoldsBlockLock(q))
    /\ [][\A r \in WmsReqs :
            (WmsLayersDiffer(r) /\ wmsPc'[r] # wmsPc[r]) =>
                /\ wmsFiles' = wmsFiles
                /\ wmsPc[r] = "gate" => wmsPc'[r] = "ns_exit"]_vars

\* A request through the map with a layer of another sizePx has failed and
\* returned, and its block key is gone from the registry.
WmsMixedSizeFailed ==
    \E r \in WmsReqs :
        /\ wmsReq[r].mapId = "mixed_size"
        /\ wmsPc[r] = "done"
        /\ wmsResult[r] = "error"
        /\ WmsNs(r) \notin DOMAIN namespace

\* ------------------- claims on MultithreadedDownloadProvider.downloadTile

MtSavesExactlyEnabledDownloads ==
    (/\ fnDone /\ fnCall.fn = "downloadTile"
     /\ \A i \in DOMAIN fnCall.args.layers :
            fnRet.gets[i] = 1 => fnCall.args.layers[i].fetch = "ok") =>
        /\ ~fnRet.raised
        /\ \A i \in DOMAIN fnCall.args.layers :
            i \in fnRet.saved <=>
                (fnCall.args.layers[i].enableTileCache /\ fnRet.gets[i] = 1)

\* Two layers were downloaded, one with caching enabled and saved, one with
\* caching disabled and not saved, beside a layer served from the cache.
MtSavedOneOfTwoDownloads ==
    /\ fnDone
    /\ fnCall.fn = "downloadTile"
    /\ ~fnRet.raised
    /\ fnRet.gets = <<1, 0, 1>>
    /\ fnRet.saved = {3}
    /\ ~fnCall.args.layers[1].enableTileCache

\* The composite of layers 1..n by overlaying each on what came before.
RECURSIVE OverlaidInTurn(_)
OverlaidInTurn(n) ==
    IF n = 1 THEN [leaf |-> 1]
    ELSE [base |-> OverlaidInTurn(n - 1), overlay |-> [leaf |-> n]]

\* C36: the tile downloadTile returns is its layers composed in index order,
\* layer 0 the base and each next one laid over the result so far, whichever
\* layers came from the cache and in whatever order the downloads completed;
\* with all layers supplied these are all the layers of the tile set, and a
\* tile set of one layer returns that layer itself.
MtComposedInIndexOrder ==
    (fnDone /\ fnCall.fn = "downloadTile" /\ ~fnRet.raised) =>
        /\ fnRet.tile = OverlaidInTurn(Len(fnRet.layers))
        /\ (\A i \in DOMAIN fnCall.args.layers :
                fnRet.gets[i] = 1 => fnCall.args.layers[i].fetch = "ok")
              => Len(fnRet.layers) = Len(fnCall.args.layers)
        /\ Len(fnCall.args.layers) = 1 => fnRet.tile = [leaf |-> 1]

\* Of three layers the second came from the cache and the other two were
\* downloaded; the tile is (layer 1 under layer 2) under layer 3.
MtComposedThreeMixed ==
    /\ fnDone
    /\ fnCall.fn = "downloadTile"
    /\ ~fnRet.raised
    /\ fnRet.gets = <<1, 0, 1>>
    /\ fnRet.tile = [base |-> [base |-> [leaf |-> 1], overlay |-> [leaf |-> 2]],
                     overlay |-> [leaf |-> 3]]

\* ------------------------ claims on filelock.py: acquiring a held lock

\* C37: acquire on an object that has the lock returns True at once: it never
\* goes to os.open, and the step changes neither the lock file, nor the
\* advisory locks, nor the descriptor. Holds are not counted: when release
\* has run, the object has no descriptor, however often acquire had returned
\* True before, so a second holder of the same object is left without the
\* lock.
FlReacquireNotCounted ==
    /\ [][\A o \in FlObjs :
            /\ (flPc[o] = "idle" /\ flFd[o] # NoFd) => flPc'[o] \in {"idle", "rel_unlink"}
            /\ (flTrues[o] >= 1 /\ flTrues'[o] = flTrues[o] + 1) =>
                  /\ flFd[o] # NoFd /\ flHeld[o]
                  /\ flFd' = flFd /\ flPath' = flPath /\ flLock' = flLock
                  /\ flLeaked' = flLeaked
                  /\ flPc'[o] = "idle" /\ flRet'[o] = "true"
            /\ (flPc[o] = "rel_close" /\ flPc'[o] = "idle") =>
                  /\ flFd'[o] = NoFd
                  /\ flLock'[flFd[o]] # flProc[o]
                  /\ flPath' # flFd[o]]_vars
    /\ [](\A o \in FlObjs : (flPc[o] = "idle" /\ ~flHeld[o]) => flFd[o] = NoFd)

\* acquire returned True twice on one object, one release followed, and
\* another object has taken the lock since.
FlFreedAfterTwoAcquires ==
    \E o, h \in FlObjs :
        /\ o # h
        /\ flTrues[o] = 2
        /\ flPc[o] = "idle"
        /\ flFd[o] = NoFd
        /\ flHeld[h]
        /\ flPath = flFd[h]

\* C38: _getXYWH applied to a block origin returns that origin again, with
\* the same side in tiles, width and height, so the cache file
\* _getLayerFromGeonorge saves a layer under, after it has rebound x and y to
\* the block origin, is the file it looked up for the tile asked for.
LayerWrittenWhereRead ==
    (fnDone /\ fnCall.fn = "layerPaths") =>
        /\ fnRet.blockOfOrigin = fnRet.block
        /\ fnRet.written = fnRet.read

\* A layer was saved for a tile of zoom 4 that lies off its block's origin
\* in both directions, in the second block of its row.
LayerWrittenForInnerTile ==
    /\ fnDone /\ fnCall.fn = "layerPaths"
    /\ fnCall.args.z = 4
    /\ fnRet.block.x = 8 /\ fnCall.args.x > 8
    /\ fnRet.block.y = 0 /\ fnCall.args.y > 0
    /\ fnRet.written.dir[4] = 8 /\ fnRet.written.name[1] = 0

\* ------------------------------ claims on a fetch that fails in the block section

\* The composite cache files of the tiles of the request's block.
WmsBlockCompositePaths(r) ==
    LET q == wmsReq[r]
        n == BlockSide(q.z)
    IN  {GetTileCompositeCachePath(q.z, (q.x - (q.x % n)) + i, (q.y - (q.y % n)) + j, q.mapId) :
            i \in 0..(n - 1), j \in 0..(n - 1)}

\* No request with the block key of f has cut the block into tiles.
WmsNobodyBuilt(f) ==
    \A q \in WmsStarted : WmsNs(q) = WmsNs(f) => wmsResult[q] # "built"

\* C39: a request whose layer fetch raises inside the block section writes
\* no composite cache file, then or later, and leaves the section with no
\* composite file of any tile of its block in the cache; its __exit__
\* releases the block's Lock, drops the registry entry when the request was
\* the last reference and otherwise leaves it with one reference less; and a
\* follower that acquires the block lock while no request has built the block
\* misses the composite cache on the re-check, goes on to the gate and the
\* layer loop, and never returns a tile from the re-check.
WmsFailedFetchLeavesNoComposite ==
    /\ [](\A r \in WmsReqs :
            wmsResult[r] = "error" =>
                /\ wmsPc[r] \in {"ns_exit", "done"}
                /\ wmsPc[r] = "ns_exit" =>
                      /\ WmsBlockCompositePaths(r) \cap DOMAIN wmsFiles = {}
                      /\ locked[namespace[WmsNs(r)]])
    /\ [][\A r \in WmsReqs :
            /\ (wmsResult[r] # "error" /\ wmsResult'[r] = "error") =>
                  /\ wmsFiles' = wmsFiles
                  /\ wmsPc'[r] = "ns_exit"
            /\ (wmsResult[r] = "error" /\ wmsPc[r] = "ns_exit" /\ wmsPc'[r] = "done") =>
                  /\ wmsFiles' = wmsFiles
                  /\ ~locked'[namespace[WmsNs(r)]]
                  /\ IF DictGet(lockCounter, WmsNs(r)) = 1
                     THEN /\ WmsNs(r) \notin DOMAIN namespace'
                          /\ WmsNs(r) \notin DictKeys(lockCounter')
                     ELSE /\ namespace' = namespace
                          /\ DictGet(lockCounter', WmsNs(r)) = DictGet(lockCounter, WmsNs(r)) - 1
            /\ (wmsPc[r] = "recheck" /\ wmsPc'[r] # "recheck" /\ WmsNobodyBuilt(r)) =>
                  wmsPc'[r] = "gate"
            /\ (wmsPc[r] = "gate" /\ wmsPc'[r] # "gate") =>
                  /\ wmsPc'[r] = "layer_stat"
                  /\ wmsLayerIdx'[r] = 1]_vars
    /\ [](\A f \in WmsReqs :
            /\ (wmsPc[f] = "recheck" /\ WmsNobodyBuilt(f)) => ~CompositeCacheUsable(wmsReq[f])
            /\ wmsResult[f] = "cached_recheck" => ~WmsNobodyBuilt(f))

\* A request failed on its first GET and has left, being the last reference
\* of the block key at that time or not; a follower with the same block key
\* then took the lock, missed the composite cache and has issued a GET of its
\* own inside the block section.
WmsFollowerFetchesAfterFailure ==
    \E r, f \in WmsReqs :
        /\ r # f
        /\ wmsPc[r] = "done" /\ wmsResult[r] = "error" /\ wmsGets[r] = 1
        /\ WmsNs(f) = WmsNs(r)
        /\ WmsInBlockSection(f) /\ wmsGets[f] > 0
        /\ locked[namespace[WmsNs(f)]]
        /\ WmsBlockCompositePaths(r) \cap DOMAIN wmsFiles = {}

\* ------------------------------------------- claims on the block lock key

\* The origin of the block of a request's tile, written out from the claim.
KeyBlockOrigin(q) ==
    <<q.x - (q.x % BlockSide(q.z)), q.y - (q.y % BlockSide(q.z))>>

\* C40: two requests get the same block lock key exactly when they agree in
\* map id, in z, in the origin of their block and in the sizePx and dpi of
\* their first layer; the dataset and the name of the first layer do not
\* enter the key, and requests through different map ids get different keys
\* whatever block they name.
BlockKeyEqualExactly ==
    (fnDone /\ fnCall.fn = "blockKeys") =>
        LET a == fnCall.args.a
            b == fnCall.args.b
        IN  /\ (fnRet.key1 = fnRet.key2) <=>
                  /\ a.mapId = b.mapId
                  /\ a.z = b.z
                  /\ KeyBlockOrigin(a) = KeyBlockOrigin(b)
                  /\ a.first.sizePx = b.first.sizePx
                  /\ a.first.dpi = b.first.dpi
            /\ a.mapId # b.mapId => fnRet.key1 # fnRet.key2

\* Two requests through one map for different tiles of one block of zoom 4,
\* whose first layers differ in dataset and name and agree in sizePx and dpi,
\* got the same key.
BlockKeySharedAcrossLayerNames ==
    /\ fnDone /\ fnCall.fn = "blockKeys"
    /\ fnCall.args.a.mapId = fnCall.args.b.mapId
    /\ fnCall.args.a.z = 4 /\ fnCall.args.b.z = 4
    /\ fnCall.args.a.x # fnCall.args.b.x /\ fnCall.args.a.y # fnCall.args.b.y
    /\ fnCall.args.a.first.wmsDataset # fnCall.args.b.first.wmsDataset
    /\ fnCall.args.a.first.tileLayerName # fnCall.args.b.first.tileLayerName
    /\ fnRet.key1 = fnRet.key2

====
